---- MODULE Spec2Model ----
(***************************************************************************)
(* Model of the judgement orchestration engine of CTI-Precheck             *)
(* (core/judgement_runner.py, core/result_mapping.py,                      *)
(* core/cancellation.py) and of the stop handler of the desktop            *)
(* application that drives it.                                             *)
(*                                                                         *)
(* Text is modelled as a sequence of tokens.  The tokens "/" and " " are   *)
(* the separator and the blank; every other token is a run of characters   *)
(* holding neither.  The Japanese literals of the source are written as    *)
(* ASCII tokens.                                                           *)
(***************************************************************************)
EXTENDS Integers, Sequences, FiniteSets, TLC

(***************************************************************************)
(* Bounds of the model.                                                    *)
(***************************************************************************)
MaxRows == 2            \* rows of the list in a run of one worker
MaxUniformRows == 4     \* valid rows of the list in a run of one worker and one lookup outcome
PoolBudget == 4         \* workers plus rows in a run of several workers
MaxStreakRows == 10     \* valid rows of a run whose every lookup fails the same retryable way
MaxCallbacks == 1       \* progress_callback calls within one run
MaxRuns == 2            \* runs the application starts
AppRows == 2            \* rows of the table the application has loaded

(***************************************************************************)
(* Program constants.                                                      *)
(***************************************************************************)
retry_limit == 3
StreakGate == 3
MaxWorkers == 8
ResetEvery == 10

(***************************************************************************)
(* Text helpers.                                                           *)
(***************************************************************************)
SeqRange(s) == { s[i] : i \in 1..Len(s) }

RECURSIVE lstrip(_)
lstrip(s) == IF s # <<>> /\ Head(s) = " " THEN lstrip(Tail(s)) ELSE s

RECURSIVE rstrip(_)
rstrip(s) ==
    IF s # <<>> /\ s[Len(s)] = " " THEN rstrip(SubSeq(s, 1, Len(s) - 1)) ELSE s

strip(s) == rstrip(lstrip(s))

\* str.split("/"): the pieces between the separators, empty pieces included
RECURSIVE SplitFrom(_, _, _)
SplitFrom(s, i, piece) ==
    IF i > Len(s) THEN << piece >>
    ELSE IF s[i] = "/" THEN << piece >> \o SplitFrom(s, i + 1, <<>>)
    ELSE SplitFrom(s, i + 1, Append(piece, s[i]))

split(s) == SplitFrom(s, 1, <<>>)

\* " / ".join(parts)
RECURSIVE join(_)
join(parts) ==
    IF parts = <<>> THEN <<>>
    ELSE IF Len(parts) = 1 THEN parts[1]
    ELSE parts[1] \o << " ", "/", " " >> \o join(Tail(parts))

\* token t holds the text k as a substring
Substrings ==
    { << "selenium message: session not created", "message:" >>,
      << "selenium message: session not created", "session not created" >>,
      << "investigation required", "investigation" >>,
      << "manual re-search required (check the address)", "manual re-search required" >>,
      << "area not provided", "not provided" >>,
      << "area under investigation", "investigation" >> }

TokenContains(t, k) == t = k \/ << t, k >> \in Substrings

\* k in text
Contains(text, k) == \E i \in 1..Len(text) : TokenContains(text[i], k)

\* str.lower() of one token
LowerToken(t) ==
    CASE t = "Chrome Not Reachable" -> "chrome not reachable"
      [] t = "AVAILABLE" -> "available"
      [] t = "Selenium Message: Session Not Created" -> "selenium message: session not created"
      [] OTHER -> t

lower(text) == [ i \in 1..Len(text) |-> LowerToken(text[i]) ]

(***************************************************************************)
(* core/result_mapping.py                                                  *)
(***************************************************************************)
INVESTIGATION_IMAGE_MESSAGE == "manual re-search required (check the address)"
INVESTIGATION_IMAGE_NOTE == "image: the address cannot be identified, staff will look into it"
BUILDING_NG_NOTE == "searched with no matching building name selected"
GENERIC_RESEARCH_NOTE == "automatic judgement may fail, re-search manually"

\* an append that keeps a segment it already holds
AppendSegments_KeepRepeats(parts, segments) == parts \o segments

RECURSIVE AppendSegments(_, _)
AppendSegments(parts, segments) ==
    IF segments = <<>> THEN parts
    ELSE AppendSegments(
             IF Head(segments) \in SeqRange(parts) THEN parts
             ELSE Append(parts, Head(segments)),
             Tail(segments))

\* the parts list after _append_unique(parts, value); a part is a text
_append_unique(parts, value) ==
    LET normalized == strip(value)
        pieces == split(normalized)
        segments == SelectSeq([ i \in 1..Len(pieces) |-> strip(pieces[i]) ],
                              LAMBDA seg : seg # <<>>)
    IN  IF normalized = <<>> THEN parts
        ELSE IF segments = <<>> THEN parts
        ELSE AppendSegments(parts, segments)

HasDetails(result) == "details" \in DOMAIN result

\* a mapper that looks at the status before the investigation markers
map_result_StatusFirst(result) ==
    LET status == LowerToken(IF "status" \in DOMAIN result THEN result.status ELSE "")
        message == IF "message" \in DOMAIN result THEN result.message ELSE <<>>
        note_text == IF HasDetails(result) THEN result.details.note ELSE <<>>
        area_text == IF HasDetails(result) THEN result.details.area ELSE <<>>
    IN  IF status = "available" THEN "Available"
        ELSE IF status = "unavailable" THEN "Unavailable"
        ELSE IF status = "cancelled" THEN "Stopped"
        ELSE IF \/ Contains(message, "manual re-search required")
                \/ Contains(message, "investigation")
                \/ Contains(note_text, "investigation")
                \/ Contains(area_text, "investigation")
        THEN "InvestigateNeeded"
        ELSE IF Contains(message, "not provided") THEN "Unavailable"
        ELSE "Failed"

map_result(result) ==
    LET status == LowerToken(IF "status" \in DOMAIN result THEN result.status ELSE "")
        message == IF "message" \in DOMAIN result THEN result.message ELSE <<>>
        note_text == IF HasDetails(result) THEN result.details.note ELSE <<>>
        area_text == IF HasDetails(result) THEN result.details.area ELSE <<>>
    IN  IF \/ Contains(message, "manual re-search required")
           \/ Contains(message, "investigation")
           \/ Contains(note_text, "investigation")
           \/ Contains(area_text, "investigation")
        THEN "InvestigateNeeded"
        ELSE IF status = "available" THEN "Available"
        ELSE IF status = "unavailable" THEN "Unavailable"
        ELSE IF status = "cancelled" THEN "Stopped"
        ELSE IF Contains(message, "not provided") THEN "Unavailable"
        ELSE "Failed"

RECURSIVE AppendAll(_, _)
AppendAll(parts, items) ==
    IF items = <<>> THEN parts
    ELSE AppendAll(_append_unique(parts, Head(items)), Tail(items))

\* an extraction that never drops the generic sentence
extract_note_KeepGeneric(result) ==
    LET p1 == IF HasDetails(result)
              THEN _append_unique(<<>>, result.details.note) ELSE <<>>
        p2 == IF "search_notes" \in DOMAIN result
              THEN AppendAll(p1, result.search_notes) ELSE p1
        message == IF "message" \in DOMAIN result
                   THEN strip(result.message) ELSE <<>>
        p3 == IF Contains(message, INVESTIGATION_IMAGE_MESSAGE)
              THEN _append_unique(p2, << INVESTIGATION_IMAGE_NOTE >>) ELSE p2
    IN  IF p3 # <<>> THEN join(p3) ELSE <<>>

extract_note(result) ==
    LET p1 == IF HasDetails(result)
              THEN _append_unique(<<>>, result.details.note) ELSE <<>>
        p2 == IF "search_notes" \in DOMAIN result
              THEN AppendAll(p1, result.search_notes) ELSE p1
        message == IF "message" \in DOMAIN result
                   THEN strip(result.message) ELSE <<>>
        p3 == IF Contains(message, INVESTIGATION_IMAGE_MESSAGE)
              THEN _append_unique(p2, << INVESTIGATION_IMAGE_NOTE >>) ELSE p2
        has_specific_note == \/ << INVESTIGATION_IMAGE_NOTE >> \in SeqRange(p3)
                             \/ << BUILDING_NG_NOTE >> \in SeqRange(p3)
        p4 == IF has_specific_note
              THEN SelectSeq(p3, LAMBDA n : n # << GENERIC_RESEARCH_NOTE >>)
              ELSE p3
    IN  IF p4 # <<>> THEN join(p4) ELSE <<>>

(***************************************************************************)
(* core/judgement_runner.py: the retryable pattern set                     *)
(***************************************************************************)
keywords ==
    { "stacktrace", "message:", "search result button not detected",
      "could not resume from the screen state", "webdriver session was disconnected",
      "max retries exceeded", "failed to establish a new connection",
      "winerror 10061", "remote end closed connection", "localhost",
      "chrome not reachable", "invalid session id", "session not created",
      "disconnected", "target window already closed", "no such window",
      "webview not found" }

_is_retryable_driver_failure(note_text) ==
    LET message == lower(note_text)
    IN  \E keyword \in keywords : Contains(message, keyword)

(***************************************************************************)
(* The Lookup Service (services.area_search.search_service_area) is an     *)
(* external collaborator: a call returns a result or raises.               *)
(***************************************************************************)
ResAvailable ==
    [ status |-> "available", message |-> << "service", " ", "available" >> ]

ResDriverFailure ==
    [ status |-> "failure", message |-> << "error" >>,
      details |-> [ note |-> << "Chrome Not Reachable" >>, area |-> <<>> ] ]

ResPlainFailure ==
    [ status |-> "failure", message |-> << "error" >>,
      details |-> [ note |-> << "address not found" >>, area |-> <<>> ],
      search_notes |-> << << GENERIC_RESEARCH_NOTE >> >> ]

LookupResults == { ResAvailable, ResDriverFailure, ResPlainFailure }

\* lines 96-98 and 117: what process_row computes from each result
MappedResults ==
    { [ result |-> r,
        judgement |-> map_result(r),
        note |-> extract_note(r),
        retryable |-> _is_retryable_driver_failure(extract_note(r)) ] : r \in LookupResults }

Mapped(r) == CHOOSE m \in MappedResults : m.result = r

Returned(r) == [ kind |-> "result", result |-> r ]
Raised(e) == [ kind |-> e, result |-> [ status |-> "" ] ]

Exceptions == { "RetryableWebDriverError", "CancellationError", "Exception" }

Outcomes == { Returned(r) : r \in LookupResults } \cup { Raised(e) : e \in Exceptions }

\* the lookup behaviours of one run: which outcomes its calls can have
OracleSets == { o \in SUBSET Outcomes : Cardinality(o) \in { 1, 2 } }

(***************************************************************************)
(* Notes the engine writes itself.                                         *)
(***************************************************************************)
NoteInputDefect(status) == << "input defect:", " ", status >>
NoteAutoRetry == << "browser communication error (automatic retry)" >>
NoteRetriesExhausted == << "browser communication error, could not judge (failed after retries)" >>
NoteStopped == << "interrupted by stop request" >>
NoteRuntimeError == << "runtime error:", " ", "lookup crashed" >>

(***************************************************************************)
(* core/csv_processing.py.  A cell of a CSV row is None or a text; the     *)
(* text of a postal code is a sequence of characters.                      *)
(***************************************************************************)
Digits == { "0", "1", "2", "3", "4", "5", "6", "7", "8", "9" }

\* the full-width hyphen and the long-vowel mark, which replace() turns into "-"
WideHyphens == { "~", "_" }

Cell(text) == [ is_none |-> FALSE, text |-> text ]
NoneCell == [ is_none |-> TRUE, text |-> <<>> ]

\* re.sub(r"\D", "", cleaned)
digits_only(text) == SelectSeq(text, LAMBDA c : c \in Digits)

\* a normalisation that leaves the hyphen out
normalize_zipcode_NoHyphen(value) ==
    LET stripped == strip(value)
        cleaned == [ i \in 1..Len(stripped) |->
                       IF stripped[i] \in WideHyphens THEN "-" ELSE stripped[i] ]
        d == digits_only(cleaned)
    IN  IF Len(d) = 7 THEN d ELSE cleaned

normalize_zipcode(value) ==
    LET stripped == strip(value)
        cleaned == [ i \in 1..Len(stripped) |->
                       IF stripped[i] \in WideHyphens THEN "-" ELSE stripped[i] ]
        d == digits_only(cleaned)
    IN  IF Len(d) = 7 THEN SubSeq(d, 1, 3) \o << "-" >> \o SubSeq(d, 4, 7)
        ELSE cleaned

\* ZIP_PATTERN.match(text), the pattern being ^\d{3}-?\d{4}$
ZIP_PATTERN_match(text) ==
    \/ Len(text) = 7 /\ \A i \in 1..7 : text[i] \in Digits
    \/ /\ Len(text) = 8
       /\ text[4] = "-"
       /\ \A i \in (1..8) \ { 4 } : text[i] \in Digits

\* utils.address_utils.normalize_address is an external collaborator; the
\* normalized address is kept as the text it was given
normalize_address(address) == address

\* lines 40-65, for the row at position index
\* a validation that reports a blank row as a row with a missing field
validate_row_BlankAsMissing(index, row) ==
    LET zipcode == IF Len(row) >= 1 /\ ~ row[1].is_none THEN strip(row[1].text) ELSE <<>>
        address == IF Len(row) >= 2 /\ ~ row[2].is_none THEN strip(row[2].text) ELSE <<>>
        normalized_zipcode == normalize_zipcode(zipcode)
        normalized_address == IF address # <<>> THEN normalize_address(address) ELSE <<>>
        status == IF zipcode = <<>> \/ address = <<>> THEN "MissingField"
                  ELSE IF ~ ZIP_PATTERN_match(normalized_zipcode) THEN "MalformedPostalCode"
                  ELSE "OK"
    IN  [ line |-> index,
          zipcode |-> normalized_zipcode,
          address |-> normalized_address,
          status |-> status,
          judgement |-> "NotRun",
          note |-> <<>> ]

validate_row(index, row) ==
    LET zipcode == IF Len(row) >= 1 /\ ~ row[1].is_none THEN strip(row[1].text) ELSE <<>>
        address == IF Len(row) >= 2 /\ ~ row[2].is_none THEN strip(row[2].text) ELSE <<>>
        normalized_zipcode == normalize_zipcode(zipcode)
        normalized_address == IF address # <<>> THEN normalize_address(address) ELSE <<>>
        status == IF zipcode = <<>> /\ address = <<>> THEN "Blank"
                  ELSE IF zipcode = <<>> \/ address = <<>> THEN "MissingField"
                  ELSE IF ~ ZIP_PATTERN_match(normalized_zipcode) THEN "MalformedPostalCode"
                  ELSE "OK"
    IN  [ line |-> index,
          zipcode |-> normalized_zipcode,
          address |-> normalized_address,
          status |-> status,
          judgement |-> "NotRun",
          note |-> <<>> ]

\* the parsed rows of validate_rows(rows)
validate_rows(rows) == [ i \in 1..Len(rows) |-> validate_row(i, rows[i]) ]

\* the line numbers validate_rows reports as invalid
invalid_line_numbers(rows) ==
    LET parsed == validate_rows(rows)
    IN  SelectSeq([ i \in 1..Len(rows) |-> i ],
                  LAMBDA i : parsed[i].status \in { "MissingField", "MalformedPostalCode" })

InputStatuses == { "OK", "Blank", "MissingField", "MalformedPostalCode" }

\* the CSV rows of the lists the engine is run on: an empty line, a line with
\* a postal code only, a complete line
RawBlank == << Cell(<< " " >>), Cell(<<>>) >>
RawZipOnly == << Cell(<< "1", "2", "3", "4", "5", "6", "7" >>) >>
RawComplete == << Cell(<< "1", "2", "3", "-", "4", "5", "6", "7" >>), Cell(<< "Tokyo" >>) >>

RawRows == { RawBlank, RawZipOnly, RawComplete }

(***************************************************************************)
(* State.                                                                  *)
(***************************************************************************)
VARIABLES
    rows_data,                 \* the row list: the rows validate_rows parsed
    parallel_count,            \* argument of run_judgement
    target_lines,              \* argument of run_judgement: [is_none, lines], None or a set of lines
    oracle,                    \* outcomes the Lookup Service can have in this run
    event_queue,               \* the event channel, oldest event first
    stop_flag,                 \* the threading.Event behind stop_requested()
    cancel_flag,               \* the cancellation flag of the Lookup Service
    stop_pc,                   \* position of DesktopApp.stop_judgement
    main_pc,                   \* position of the thread running run_judgement
    started,                   \* number of worker threads started so far
    effective_parallel,
    total,
    task_queue,                \* lines of the rows waiting, head first
    failed_rows,
    processed,
    retryable_failure_streak,
    cancelled,                 \* local of run_judgement
    pc,                        \* worker -> position
    w_line,                    \* worker -> line of the row being processed (0: none)
    attempt,                   \* worker -> attempt
    judgement,                 \* worker -> local judgement
    note,                      \* worker -> local note
    current_streak,            \* worker -> local current_streak
    current,                   \* worker -> local current
    callbacks,                 \* progress_callback calls made so far in the run
    history,                   \* line -> outcomes of its lookups, with the streak read after each
    rank,                      \* line -> value of processed when the row was counted (0: not yet)
    resets,                    \* number of close_active_drivers() calls
    call,                      \* a call of a function of the core: [fn, arg, ret], ret <<>> until it returns
    running,                   \* DesktopApp.running
    app_event_queue,           \* DesktopApp.event_queue: 0 a queue no run writes, k the queue of run k
    current_stop_event,        \* DesktopApp.current_stop_event: 0 None, k the event of run k
    run_stop_event,            \* per run, whether its threading.Event is set
    service_cancel,            \* the cancel flag of the Lookup Service: [set, by], by the run the stop was for
    run,                       \* per run, its thread: [pc, tasks, stopped, queue, request, target, line,
                               \* written], tasks the lines still queued, stopped whether
                               \* stop_judgement was called for the run, request the request that
                               \* started it, queue and target the arguments it was given, line the
                               \* row in process, written the rows it wrote, in order
    run_queue,                 \* per queue made for a run, the events in it
    ui_pc,                     \* position of the UI thread: idle or inside stop_judgement
    run_scope,                 \* DesktopApp.run_scope_var
    execution_target_line,     \* DesktopApp.execution_target_line (0: None)
    rejected,                  \* the last request to start a run that was refused
    lock,                      \* lock of run_judgement -> the workers inside its with block
    loaded                     \* worker -> the value of processed it loaded for processed += 1

vars == << rows_data, parallel_count, target_lines, oracle, event_queue, stop_flag,
           cancel_flag, stop_pc, main_pc, started, effective_parallel, total,
           task_queue, failed_rows, processed, retryable_failure_streak,
           cancelled, pc, w_line, attempt, judgement, note, current_streak,
           current, callbacks, history, rank, resets, call,
           running, app_event_queue, current_stop_event, run_stop_event,
           service_cancel, run, run_queue, ui_pc, run_scope,
           execution_target_line, rejected, lock, loaded >>

\* failed_rows_lock, processed_lock and retryable_failure_streak_lock (lines 50-52)
LockNames == { "failed_rows_lock", "processed_lock", "retryable_failure_streak_lock" }

\* the locks and what a worker has loaded inside processed += 1
lockVars == << lock, loaded >>

\* the three locks as threading.Lock() makes them: free
LocksFree ==
    /\ lock = [ l \in LockNames |-> {} ]
    /\ loaded = [ w \in 0 .. (MaxWorkers - 1) |-> 0 ]

\* a request to start a run, as the user made it: the scope and the target line
\* (0: None) on entry, and the answer to the question whether to resume
Request(scope, chosen, resume) == [ scope |-> scope, chosen |-> chosen, resume |-> resume ]

NoRequest == Request("", 0, FALSE)

\* the scope and target line of the application, and the request refused last
scopeVars == << run_scope, execution_target_line, rejected >>

\* the state of the application
appVars == << running, app_event_queue, current_stop_event, run_stop_event,
              service_cancel, run, run_queue, ui_pc, scopeVars >>

Scopes == { "All", "SingleLine", "FromLineOnward" }

Runs == 1..MaxRuns

\* the application after DesktopApp.__init__: no run was started
NoApp ==
    /\ running = FALSE
    /\ app_event_queue = 0
    /\ current_stop_event = 0
    /\ run_stop_event = [ k \in Runs |-> FALSE ]
    /\ run = [ k \in Runs |->
                [ pc |-> "none", tasks |-> <<>>, stopped |-> FALSE, queue |-> 0,
                  request |-> NoRequest,
                  target |-> [ is_none |-> TRUE, lines |-> {} ], line |-> 0,
                  written |-> <<>> ] ]
    /\ run_queue = [ k \in Runs |-> <<>> ]
    /\ ui_pc = "idle"
    /\ run_scope = "All"
    /\ execution_target_line = 0
    /\ rejected = NoRequest


(***************************************************************************)
(* Helpers of the state machine.                                           *)
(***************************************************************************)
Max(a, b) == IF a >= b THEN a ELSE b
Min(a, b) == IF a <= b THEN a ELSE b

\* the parallel_count a caller passes: None is <<>>, the number p is << p >>
NoneParallel == <<>>
Parallel(p) == << p >>

\* faulty variant of EffectiveParallel: no upper limit
EffectiveParallel_Unbounded(p) ==
    Max(1, IF p = NoneParallel \/ p[1] = 0 THEN 1 ELSE p[1])

\* max(1, min(int(parallel_count or 1), 8))
EffectiveParallel(p) ==
    Max(1, Min(IF p = NoneParallel \/ p[1] = 0 THEN 1 ELSE p[1], MaxWorkers))

\* the indices a worker thread can have
Workers == 0 .. (MaxWorkers - 1)

\* the longest list of rows of any input status
MaxMixedRows == Max(Max(MaxRows, MaxUniformRows), PoolBudget - 2)

Lines == 1 .. Max(MaxMixedRows, MaxStreakRows)

RowIndex(line) == CHOOSE i \in 1..Len(rows_data) : rows_data[i].line = line

RowOf(line) == rows_data[RowIndex(line)]

InTarget(line) == target_lines.is_none \/ line \in target_lines.lines

\* faulty variant of QueuedLines: every row is queued whatever the target set
QueuedLines_Unfiltered == [ i \in 1..Len(rows_data) |-> rows_data[i].line ]

\* the rows put on the task queue, in row-list order
QueuedLines ==
    LET picked == SelectSeq(rows_data, LAMBDA row : InTarget(row.line))
    IN  [ i \in 1..Len(picked) |-> picked[i].line ]

RECURSIVE Insert(_, _)
Insert(x, s) ==
    IF s = <<>> THEN << x >>
    ELSE IF x <= Head(s) THEN << x >> \o s
    ELSE << Head(s) >> \o Insert(x, Tail(s))

RECURSIVE sorted(_)
sorted(s) == IF s = <<>> THEN <<>> ELSE Insert(Head(s), sorted(Tail(s)))

\* faulty variant of WorkerLog: the event carries index 0 whoever emits it
WorkerLog_Untagged(w, line, kind, att) ==
    [ type |-> "worker_log", worker |-> 0, line |-> line, kind |-> kind, attempt |-> att ]

WorkerLog(w, line, kind, att) ==
    [ type |-> "worker_log", worker |-> w, line |-> line, kind |-> kind, attempt |-> att ]

RowUpdated(row) == [ type |-> "row", row |-> row ]

Progress(cur, tot) == [ type |-> "progress", current |-> cur, total |-> tot ]

Done(failed, canc) == [ type |-> "done", failed_rows |-> failed, cancelled |-> canc ]

\* faulty variant of SetRow: the judgement is written and the note is left as it was
SetRow_JudgementOnly(line, j, n) ==
    [ rows_data EXCEPT ![RowIndex(line)].judgement = j ]

SetRow(line, j, n) ==
    [ rows_data EXCEPT ![RowIndex(line)].judgement = j, ![RowIndex(line)].note = n ]

(***************************************************************************)
(* Initial state: run_judgement has just been called.  The runs explored   *)
(* are those of five families:                                             *)
(*   - one worker, up to MaxUniformRows valid rows, every row in scope,    *)
(*     one lookup outcome;                                                 *)
(*   - one worker, up to MaxRows rows of any input status, any target the  *)
(*     application resolves, one lookup outcome;                           *)
(*   - one worker, up to MaxRows valid rows, every row in scope, two       *)
(*     lookup outcomes;                                                    *)
(*   - a pool of p >= 2 workers and n rows of any input status with        *)
(*     n + p <= PoolBudget, every row in scope, one lookup outcome, and    *)
(*     at most one valid row unless every lookup succeeds.                 *)
(*   - one worker, MaxStreakRows valid rows, every row in scope, every     *)
(*     lookup returning the same retryable failure.                        *)
(* The Lookup Service reports progress (ProgressCallback) in the runs of   *)
(* one worker and one lookup outcome.                                      *)
(***************************************************************************)
NoTarget == [ is_none |-> TRUE, lines |-> {} ]

\* what DesktopApp._resolve_target_lines gives for n rows (ui/desktop_app.py 378-396)
ResolvedTargets(n) ==
    { NoTarget }
    \cup { [ is_none |-> FALSE, lines |-> { c } ] : c \in 1..n }
    \cup { [ is_none |-> FALSE, lines |-> c..n ] : c \in 1..n }

ValidRows(rows) == { i \in 1..Len(rows) : rows[i].status = "OK" }

Scenario(rows, tl, p, orc) ==
    LET n == Len(rows)
    IN  \/ /\ p = 1
           /\ n <= MaxUniformRows
           /\ ValidRows(rows) = 1..n
           /\ tl = NoTarget
           /\ Cardinality(orc) = 1
        \/ /\ p = 1
           /\ n <= MaxRows
           /\ Cardinality(orc) = 1
        \/ /\ p = 1
           /\ n <= MaxRows
           /\ ValidRows(rows) = 1..n
           /\ tl = NoTarget
        \/ /\ p > 1
           /\ n + p <= PoolBudget
           /\ tl = NoTarget
           /\ Cardinality(orc) = 1
           /\ orc = { Returned(ResAvailable) } \/ Cardinality(ValidRows(rows)) <= 1
           /\ n <= MaxMixedRows
        \/ /\ p = 1
           /\ n = MaxStreakRows
           /\ n > MaxMixedRows
           /\ ValidRows(rows) = 1..n
           /\ tl = NoTarget
           /\ orc = { Returned(ResDriverFailure) }

\* the raw tables of n rows that are loaded
RawTables(n) ==
    IF n > MaxMixedRows THEN { [ i \in 1..n |-> RawComplete ] } ELSE [ 1..n -> RawRows ]

\* run_judgement has been called and nothing of it has run yet
Called ==
    /\ event_queue = <<>>
    /\ stop_flag = FALSE
    /\ cancel_flag = FALSE
    /\ main_pc = "setup"
    /\ started = 0
    /\ effective_parallel = 0
    /\ total = 0
    /\ task_queue = <<>>
    /\ failed_rows = <<>>
    /\ processed = 0
    /\ retryable_failure_streak = 0
    /\ cancelled = FALSE
    /\ pc = [ w \in Workers |-> "unstarted" ]
    /\ w_line = [ w \in Workers |-> 0 ]
    /\ attempt = [ w \in Workers |-> 0 ]
    /\ judgement = [ w \in Workers |-> "" ]
    /\ note = [ w \in Workers |-> <<>> ]
    /\ current_streak = [ w \in Workers |-> 0 ]
    /\ current = [ w \in Workers |-> 0 ]
    /\ callbacks = 0
    /\ history = [ l \in Lines |-> <<>> ]
    /\ rank = [ l \in Lines |-> 0 ]
    /\ resets = 0
    /\ LocksFree
    /\ NoApp
    /\ service_cancel = [ set |-> FALSE, by |-> 0 ]

Init ==
    /\ \E n \in Lines :
       \E raw \in RawTables(n) :
           /\ rows_data = validate_rows(raw)
           /\ call = [ fn |-> "validate_rows", arg |-> raw, ret |-> << validate_rows(raw) >> ]
    /\ oracle \in OracleSets
    /\ parallel_count \in { Parallel(p) : p \in 1..(PoolBudget - 1) }
    /\ target_lines \in ResolvedTargets(Len(rows_data))
    /\ Scenario(rows_data, target_lines, parallel_count[1], oracle)
    /\ stop_pc = "idle"
    /\ Called

\* the function call on record and the application, which a run of the engine leaves alone
otherVars == << call, appVars, lockVars >>
argVars == << parallel_count, target_lines, oracle, otherVars >>
inputVars == << rows_data, argVars >>
sharedVars == << failed_rows, processed, retryable_failure_streak >>
localVars == << w_line, attempt, judgement, note, current_streak, current, callbacks >>
mainVars == << main_pc, started, effective_parallel, total, cancelled >>
stopVars == << stop_flag, stop_pc >>

(***************************************************************************)
(* run_judgement, the calling thread.                                      *)
(***************************************************************************)
\* lines 49-66: locals, the task queue, clear_cancel_flags()
Setup ==
    /\ main_pc = "setup"
    /\ total' = IF target_lines.is_none THEN Len(rows_data)
                ELSE Cardinality(target_lines.lines)
    /\ effective_parallel' = EffectiveParallel(parallel_count)
    /\ task_queue' = QueuedLines
    /\ cancel_flag' = FALSE
    /\ main_pc' = "spawn"
    /\ UNCHANGED << rows_data, argVars, event_queue,
                    stopVars, started, cancelled, sharedVars, pc, localVars,
                    history, rank, resets >>

\* lines 186-189: one thread.start()
StartWorker ==
    /\ main_pc = "spawn"
    /\ started < effective_parallel
    /\ pc' = [ pc EXCEPT ![started] = "check" ]
    /\ started' = started + 1
    /\ UNCHANGED << inputVars, event_queue, stopVars, cancel_flag, main_pc,
                    effective_parallel, total, cancelled, task_queue, sharedVars,
                    localVars, history, rank, resets >>

\* faulty variant of Join: the calling thread goes on without joining the workers
Join_NoWait ==
    /\ main_pc = "spawn"
    /\ started = effective_parallel
    /\ main_pc' = "read_stop"
    /\ UNCHANGED << inputVars, event_queue, stopVars, cancel_flag, started,
                    effective_parallel, total, cancelled, task_queue, sharedVars,
                    pc, localVars, history, rank, resets >>

\* lines 191-192: every join() has returned
Join ==
    /\ main_pc = "spawn"
    /\ started = effective_parallel
    /\ \A w \in Workers : w < effective_parallel => pc[w] = "terminated"
    /\ main_pc' = "read_stop"
    /\ UNCHANGED << inputVars, event_queue, stopVars, cancel_flag, started,
                    effective_parallel, total, cancelled, task_queue, sharedVars,
                    pc, localVars, history, rank, resets >>

\* faulty variant of ReadStop: the run is reported as not cancelled whatever the flag
ReadStop_NeverCancelled ==
    /\ main_pc = "read_stop"
    /\ cancelled' = FALSE
    /\ main_pc' = "put_done"
    /\ UNCHANGED << inputVars, event_queue, stopVars, cancel_flag, started,
                    effective_parallel, total, task_queue, sharedVars,
                    pc, localVars, history, rank, resets >>

\* line 194
ReadStop ==
    /\ main_pc = "read_stop"
    /\ cancelled' = stop_flag
    /\ main_pc' = "put_done"
    /\ UNCHANGED << inputVars, event_queue, stopVars, cancel_flag, started,
                    effective_parallel, total, task_queue, sharedVars,
                    pc, localVars, history, rank, resets >>

\* faulty variant of PutDone: the failed lines are sent in completion order
PutDone_Unsorted ==
    /\ main_pc = "put_done"
    /\ event_queue' = Append(event_queue, Done(failed_rows, cancelled))
    /\ main_pc' = "clear"
    /\ UNCHANGED << inputVars, stopVars, cancel_flag, started,
                    effective_parallel, total, cancelled, task_queue, sharedVars,
                    pc, localVars, history, rank, resets >>

\* lines 195-196
PutDone ==
    /\ main_pc = "put_done"
    /\ event_queue' = Append(event_queue, Done(sorted(failed_rows), cancelled))
    /\ main_pc' = "clear"
    /\ UNCHANGED << inputVars, stopVars, cancel_flag, started,
                    effective_parallel, total, cancelled, task_queue, sharedVars,
                    pc, localVars, history, rank, resets >>

\* line 197
ClearFlags ==
    /\ main_pc = "clear"
    /\ cancel_flag' = FALSE
    /\ main_pc' = "finished"
    /\ UNCHANGED << inputVars, event_queue, stopVars, started,
                    effective_parallel, total, cancelled, task_queue, sharedVars,
                    pc, localVars, history, rank, resets >>

(***************************************************************************)
(* DesktopApp.stop_judgement, on the UI thread, while the run is going.    *)
(***************************************************************************)
\* ui/desktop_app.py lines 515-516: current_stop_event.set()
StopRequest ==
    /\ stop_pc = "idle"
    /\ main_pc # "finished"
    /\ stop_flag' = TRUE
    /\ stop_pc' = "event_set"
    /\ UNCHANGED << inputVars, event_queue, cancel_flag, mainVars, task_queue,
                    sharedVars, pc, localVars, history, rank, resets >>

\* ui/desktop_app.py line 523: request_cancel_service()
RequestCancelService ==
    /\ stop_pc = "event_set"
    /\ cancel_flag' = TRUE
    /\ stop_pc' = "returned"
    /\ UNCHANGED << inputVars, event_queue, stop_flag, mainVars, task_queue,
                    sharedVars, pc, localVars, history, rank, resets >>

(***************************************************************************)
(* worker_loop and process_row, run by worker w.  One step of a worker is  *)
(* the code up to and including its next access to state that another      *)
(* thread can see (the stop event, the task queue, the event channel, the  *)
(* shared counters and list); a block under one of the three locks is one  *)
(* step.  A lookup call in flight is a position of its own.                *)
(***************************************************************************)
Put(ev) == event_queue' = Append(event_queue, ev)

Goto(w, label) == pc' = [ pc EXCEPT ![w] = label ]

\* close_active_drivers() is called only by a pool of one
\* a reset that does not look at the pool size
ResetIf_AnyPool(cond) == resets' = resets + 1

ResetIf(cond) == resets' = IF cond THEN resets + 1 ELSE resets

\* line 173
Check(w) ==
    /\ pc[w] = "check"
    /\ Goto(w, IF stop_flag THEN "terminated" ELSE "pull")
    /\ UNCHANGED << inputVars, event_queue, stopVars, cancel_flag, mainVars,
                    task_queue, sharedVars, localVars, history, rank, resets >>

\* faulty variant of Pull: a blocking get(), which waits on an empty queue
Pull_Blocking(w) ==
    /\ pc[w] = "pull"
    /\ task_queue # <<>>
    /\ w_line' = [ w_line EXCEPT ![w] = Head(task_queue) ]
    /\ task_queue' = Tail(task_queue)
    /\ Goto(w, "begin")
    /\ UNCHANGED << inputVars, event_queue, stopVars, cancel_flag, mainVars,
                    sharedVars, attempt, judgement, note, current_streak,
                    current, callbacks, history, rank, resets >>

\* faulty variant of Pull: the head of the queue is read and left on the queue
Pull_Peek(w) ==
    /\ pc[w] = "pull"
    /\ IF task_queue = <<>>
       THEN /\ Goto(w, "terminated")
            /\ UNCHANGED << task_queue, w_line >>
       ELSE /\ w_line' = [ w_line EXCEPT ![w] = Head(task_queue) ]
            /\ task_queue' = task_queue
            /\ Goto(w, "begin")
    /\ UNCHANGED << inputVars, event_queue, stopVars, cancel_flag, mainVars,
                    sharedVars, attempt, judgement, note, current_streak,
                    current, callbacks, history, rank, resets >>

\* lines 175-178
Pull(w) ==
    /\ pc[w] = "pull"
    /\ IF task_queue = <<>>
       THEN /\ Goto(w, "terminated")
            /\ UNCHANGED << task_queue, w_line >>
       ELSE /\ w_line' = [ w_line EXCEPT ![w] = Head(task_queue) ]
            /\ task_queue' = Tail(task_queue)
            /\ Goto(w, "begin")
    /\ UNCHANGED << inputVars, event_queue, stopVars, cancel_flag, mainVars,
                    sharedVars, attempt, judgement, note, current_streak,
                    current, callbacks, history, rank, resets >>

\* faulty variant of BeginDefect: the defective row is not added to failed_rows
BeginDefect_NotCounted(w) ==
    /\ pc[w] = "begin"
    /\ RowOf(w_line[w]).status # "OK"
    /\ rows_data' = SetRow(w_line[w], "Failed", NoteInputDefect(RowOf(w_line[w]).status))
    /\ Goto(w, "count")
    /\ UNCHANGED << argVars, event_queue, stopVars,
                    cancel_flag, mainVars, task_queue, sharedVars, localVars,
                    history, rank, resets >>

\* lines 72-78: a row with an input defect
BeginDefect(w) ==
    /\ pc[w] = "begin"
    /\ RowOf(w_line[w]).status # "OK"
    /\ rows_data' = SetRow(w_line[w], "Failed", NoteInputDefect(RowOf(w_line[w]).status))
    /\ failed_rows' = Append(failed_rows, w_line[w])
    /\ Goto(w, "count")
    /\ UNCHANGED << argVars, event_queue, stopVars,
                    cancel_flag, mainVars, task_queue, processed,
                    retryable_failure_streak, localVars, history, rank, resets >>

\* lines 80-93: a row with status OK
BeginLookup(w) ==
    /\ pc[w] = "begin"
    /\ RowOf(w_line[w]).status = "OK"
    /\ Put(WorkerLog(w, w_line[w], "start", 0))
    /\ attempt' = [ attempt EXCEPT ![w] = 1 ]
    /\ judgement' = [ judgement EXCEPT ![w] = "Failed" ]
    /\ note' = [ note EXCEPT ![w] = <<>> ]
    /\ Goto(w, "lookup")
    /\ UNCHANGED << inputVars, stopVars, cancel_flag, mainVars, task_queue,
                    sharedVars, w_line, current_streak, current, callbacks,
                    history, rank, resets >>

\* lines 84-85: the lookup in flight reports progress
ProgressCallback(w) ==
    /\ pc[w] = "lookup"
    /\ callbacks < MaxCallbacks
    /\ effective_parallel = 1
    /\ Cardinality(oracle) = 1
    /\ Put(WorkerLog(w, w_line[w], "progress", attempt[w]))
    /\ callbacks' = callbacks + 1
    /\ UNCHANGED << inputVars, stopVars, cancel_flag, mainVars, task_queue,
                    sharedVars, pc, w_line, attempt, judgement, note,
                    current_streak, current, history, rank, resets >>

\* the outcome o of the lookup of worker w, and the streak it then read (-1: none)
Record(w, o, streak) ==
    history' = [ history EXCEPT ![w_line[w]] = Append(@, [ o |-> o, streak |-> streak ]) ]

\* lines 95-98, 117-118 and 138-139: the lookup returns a result that is final
LookupReturnsFinal(w) ==
    /\ pc[w] = "lookup"
    /\ \E o \in oracle :
         /\ o.kind = "result"
         /\ LET j == Mapped(o.result).judgement
                n == Mapped(o.result).note
            IN  /\ j # "Failed" \/ ~ Mapped(o.result).retryable
                /\ Record(w, o, -1)
                /\ judgement' = [ judgement EXCEPT ![w] = j ]
                /\ note' = [ note EXCEPT ![w] = n ]
                /\ rows_data' = SetRow(w_line[w], j, n)
    /\ Goto(w, "streak_update")
    /\ UNCHANGED << argVars, event_queue, stopVars,
                    cancel_flag, mainVars, task_queue, sharedVars, w_line, attempt,
                    current_streak, current, callbacks, rank, resets >>

\* faulty variant of LookupReturnsRetryable: the gate lets a streak of 3 through
LookupReturnsRetryable_StreakInclusive(w) ==
    /\ pc[w] = "lookup"
    /\ \E o \in oracle :
         /\ o.kind = "result"
         /\ LET j == Mapped(o.result).judgement
                n == Mapped(o.result).note
            IN  /\ j = "Failed" /\ Mapped(o.result).retryable
                /\ Record(w, o, retryable_failure_streak)
                /\ judgement' = [ judgement EXCEPT ![w] = j ]
                /\ note' = [ note EXCEPT ![w] = n ]
                /\ current_streak' = [ current_streak EXCEPT ![w] = retryable_failure_streak ]
                /\ IF attempt[w] < retry_limit /\ retryable_failure_streak <= StreakGate
                   THEN /\ Goto(w, "retry")
                        /\ UNCHANGED rows_data
                   ELSE /\ Goto(w, "streak_update")
                        /\ rows_data' = SetRow(w_line[w], j, n)
    /\ UNCHANGED << argVars, event_queue, stopVars,
                    cancel_flag, mainVars, task_queue, sharedVars, w_line, attempt,
                    current, callbacks, rank, resets >>

\* lines 95-98, 117-123 and 136-139: the lookup returns a Failed result with a
\* retryable note, and the streak is read
LookupReturnsRetryable(w) ==
    /\ pc[w] = "lookup"
    /\ \E o \in oracle :
         /\ o.kind = "result"
         /\ LET j == Mapped(o.result).judgement
                n == Mapped(o.result).note
            IN  /\ j = "Failed" /\ Mapped(o.result).retryable
                /\ Record(w, o, retryable_failure_streak)
                /\ judgement' = [ judgement EXCEPT ![w] = j ]
                /\ note' = [ note EXCEPT ![w] = n ]
                /\ current_streak' = [ current_streak EXCEPT ![w] = retryable_failure_streak ]
                /\ IF attempt[w] < retry_limit /\ retryable_failure_streak < StreakGate
                   THEN /\ Goto(w, "retry")
                        /\ UNCHANGED rows_data
                   ELSE /\ Goto(w, "streak_update")
                        /\ rows_data' = SetRow(w_line[w], j, n)
    /\ UNCHANGED << argVars, event_queue, stopVars,
                    cancel_flag, mainVars, task_queue, sharedVars, w_line, attempt,
                    current, callbacks, rank, resets >>

\* faulty variant of Retry: the attempt counter is not advanced
Retry_NoIncrement(w) ==
    /\ pc[w] = "retry"
    /\ Put(WorkerLog(w, w_line[w], "retry", attempt[w]))
    /\ ResetIf(effective_parallel = 1)
    /\ Goto(w, "lookup")
    /\ UNCHANGED << inputVars, stopVars, cancel_flag, mainVars, task_queue,
                    sharedVars, w_line, attempt, judgement, note, current_streak,
                    current, callbacks, history, rank >>

\* lines 124-134
Retry(w) ==
    /\ pc[w] = "retry"
    /\ Put(WorkerLog(w, w_line[w], "retry", attempt[w]))
    /\ ResetIf(effective_parallel = 1)
    /\ attempt' = [ attempt EXCEPT ![w] = @ + 1 ]
    /\ Goto(w, "lookup")
    /\ UNCHANGED << inputVars, stopVars, cancel_flag, mainVars, task_queue,
                    sharedVars, w_line, judgement, note, current_streak,
                    current, callbacks, history, rank >>

\* faulty variant of LookupRaisesRetryable: the retry is not logged
LookupRaisesRetryable_Silent(w) ==
    /\ pc[w] = "lookup"
    /\ \E o \in oracle :
         /\ o.kind = "RetryableWebDriverError"
         /\ Record(w, o, -1)
    /\ judgement' = [ judgement EXCEPT ![w] = "Failed" ]
    /\ IF attempt[w] < retry_limit
       THEN /\ note' = [ note EXCEPT ![w] = NoteAutoRetry ]
            /\ ResetIf(effective_parallel = 1)
            /\ attempt' = [ attempt EXCEPT ![w] = @ + 1 ]
            /\ UNCHANGED << pc, rows_data, event_queue >>
       ELSE /\ note' = [ note EXCEPT ![w] = NoteRetriesExhausted ]
            /\ rows_data' = SetRow(w_line[w], "Failed", NoteRetriesExhausted)
            /\ Goto(w, "streak_update")
            /\ UNCHANGED << event_queue, resets, attempt >>
    /\ UNCHANGED << argVars, stopVars, cancel_flag,
                    mainVars, task_queue, sharedVars, w_line, current_streak,
                    current, callbacks, rank >>

\* lines 99-115 and 138-139: the lookup raises RetryableWebDriverError
LookupRaisesRetryable(w) ==
    /\ pc[w] = "lookup"
    /\ \E o \in oracle :
         /\ o.kind = "RetryableWebDriverError"
         /\ Record(w, o, -1)
    /\ judgement' = [ judgement EXCEPT ![w] = "Failed" ]
    /\ IF attempt[w] < retry_limit
       THEN /\ note' = [ note EXCEPT ![w] = NoteAutoRetry ]
            /\ Put(WorkerLog(w, w_line[w], "fast_retry", attempt[w]))
            /\ ResetIf(effective_parallel = 1)
            /\ attempt' = [ attempt EXCEPT ![w] = @ + 1 ]
            /\ UNCHANGED << pc, rows_data >>
       ELSE /\ note' = [ note EXCEPT ![w] = NoteRetriesExhausted ]
            /\ rows_data' = SetRow(w_line[w], "Failed", NoteRetriesExhausted)
            /\ Goto(w, "streak_update")
            /\ UNCHANGED << event_queue, resets, attempt >>
    /\ UNCHANGED << argVars, stopVars, cancel_flag,
                    mainVars, task_queue, sharedVars, w_line, current_streak,
                    current, callbacks, rank >>

\* faulty variant of LookupRaisesCancellation: the stopped row is counted as failed
LookupRaisesCancellation_Counted(w) ==
    /\ pc[w] = "lookup"
    /\ \E o \in oracle :
         /\ o.kind = "CancellationError"
         /\ Record(w, o, -1)
    /\ rows_data' = SetRow(w_line[w], "Stopped", NoteStopped)
    /\ failed_rows' = Append(failed_rows, w_line[w])
    /\ Put(WorkerLog(w, w_line[w], "stopped", attempt[w]))
    /\ Goto(w, "count")
    /\ UNCHANGED << argVars, stopVars, cancel_flag,
                    mainVars, task_queue, processed, retryable_failure_streak,
                    localVars, rank, resets >>

\* lines 153-156: the lookup raises CancellationError
LookupRaisesCancellation(w) ==
    /\ pc[w] = "lookup"
    /\ \E o \in oracle :
         /\ o.kind = "CancellationError"
         /\ Record(w, o, -1)
    /\ rows_data' = SetRow(w_line[w], "Stopped", NoteStopped)
    /\ Put(WorkerLog(w, w_line[w], "stopped", attempt[w]))
    /\ Goto(w, "count")
    /\ UNCHANGED << argVars, stopVars, cancel_flag,
                    mainVars, task_queue, sharedVars, localVars, rank, resets >>

\* lines 157-161: the lookup raises any other exception
LookupRaisesException(w) ==
    /\ pc[w] = "lookup"
    /\ \E o \in oracle :
         /\ o.kind = "Exception"
         /\ Record(w, o, -1)
    /\ rows_data' = SetRow(w_line[w], "Failed", NoteRuntimeError)
    /\ failed_rows' = Append(failed_rows, w_line[w])
    /\ Goto(w, "error_log")
    /\ UNCHANGED << argVars, event_queue, stopVars,
                    cancel_flag, mainVars, task_queue, processed,
                    retryable_failure_streak, localVars, rank, resets >>

\* faulty variant of ErrorLog: the handler falls through to the append of line 152
ErrorLog_ThenAppend(w) ==
    /\ pc[w] = "error_log"
    /\ Put(WorkerLog(w, w_line[w], "error", attempt[w]))
    /\ Goto(w, "failed_append")
    /\ UNCHANGED << inputVars, stopVars, cancel_flag, mainVars, task_queue,
                    sharedVars, localVars, history, rank, resets >>

\* line 162
ErrorLog(w) ==
    /\ pc[w] = "error_log"
    /\ Put(WorkerLog(w, w_line[w], "error", attempt[w]))
    /\ Goto(w, "count")
    /\ UNCHANGED << inputVars, stopVars, cancel_flag, mainVars, task_queue,
                    sharedVars, localVars, history, rank, resets >>

\* faulty variant of StreakUpdate: a Failed row is not added to failed_rows
StreakUpdate_SkipAppend(w) ==
    /\ pc[w] = "streak_update"
    /\ IF judgement[w] = "Failed" /\ _is_retryable_driver_failure(note[w])
       THEN /\ retryable_failure_streak' = retryable_failure_streak + 1
            /\ ResetIf(effective_parallel = 1
                       /\ (retryable_failure_streak + 1) % ResetEvery = 0)
       ELSE /\ retryable_failure_streak' = 0
            /\ UNCHANGED resets
    /\ Goto(w, "count")
    /\ UNCHANGED << inputVars, event_queue, stopVars, cancel_flag, mainVars,
                    task_queue, failed_rows, processed, localVars, history, rank >>

\* lines 141-150
StreakUpdate(w) ==
    /\ pc[w] = "streak_update"
    /\ IF judgement[w] = "Failed" /\ _is_retryable_driver_failure(note[w])
       THEN /\ retryable_failure_streak' = retryable_failure_streak + 1
            /\ ResetIf(effective_parallel = 1
                       /\ (retryable_failure_streak + 1) % ResetEvery = 0)
       ELSE /\ retryable_failure_streak' = 0
            /\ UNCHANGED resets
    /\ Goto(w, IF judgement[w] = "Failed" THEN "failed_append" ELSE "count")
    /\ UNCHANGED << inputVars, event_queue, stopVars, cancel_flag, mainVars,
                    task_queue, failed_rows, processed, localVars, history, rank >>

\* lines 151-152
FailedAppend(w) ==
    /\ pc[w] = "failed_append"
    /\ failed_rows' = Append(failed_rows, w_line[w])
    /\ Goto(w, "count")
    /\ UNCHANGED << inputVars, event_queue, stopVars, cancel_flag, mainVars,
                    task_queue, processed, retryable_failure_streak, localVars,
                    history, rank, resets >>

\* faulty variant of Count: current is read before the increment
Count_Stale(w) ==
    /\ pc[w] = "count"
    /\ processed' = processed + 1
    /\ current' = [ current EXCEPT ![w] = processed ]
    /\ rank' = [ rank EXCEPT ![w_line[w]] = processed + 1 ]
    /\ Goto(w, "put_row")
    /\ UNCHANGED << inputVars, event_queue, stopVars, cancel_flag, mainVars,
                    task_queue, failed_rows, retryable_failure_streak, w_line,
                    attempt, judgement, note, current_streak, callbacks, history,
                    resets >>

\* lines 164-166
Count(w) ==
    /\ pc[w] = "count"
    /\ processed' = processed + 1
    /\ current' = [ current EXCEPT ![w] = processed + 1 ]
    /\ rank' = [ rank EXCEPT ![w_line[w]] = processed + 1 ]
    /\ Goto(w, "put_row")
    /\ UNCHANGED << inputVars, event_queue, stopVars, cancel_flag, mainVars,
                    task_queue, failed_rows, retryable_failure_streak, w_line,
                    attempt, judgement, note, current_streak, callbacks, history,
                    resets >>

\* line 168
PutRow(w) ==
    /\ pc[w] = "put_row"
    /\ Put(RowUpdated(RowOf(w_line[w])))
    /\ Goto(w, "put_progress")
    /\ UNCHANGED << inputVars, stopVars, cancel_flag, mainVars, task_queue,
                    sharedVars, localVars, history, rank, resets >>

\* faulty variant of PutProgress: a worker gives up after a row that ended Failed
PutProgress_QuitOnFailure(w) ==
    /\ pc[w] = "put_progress"
    /\ Put(Progress(current[w], total))
    /\ Goto(w, IF RowOf(w_line[w]).judgement = "Failed" THEN "terminated" ELSE "check")
    /\ w_line' = [ w_line EXCEPT ![w] = 0 ]
    /\ attempt' = [ attempt EXCEPT ![w] = 0 ]
    /\ judgement' = [ judgement EXCEPT ![w] = "" ]
    /\ note' = [ note EXCEPT ![w] = <<>> ]
    /\ current_streak' = [ current_streak EXCEPT ![w] = 0 ]
    /\ current' = [ current EXCEPT ![w] = 0 ]
    /\ UNCHANGED << inputVars, stopVars, cancel_flag, mainVars, task_queue,
                    sharedVars, callbacks, history, rank, resets >>

\* lines 169 and 183; the locals of process_row go out of scope
PutProgress(w) ==
    /\ pc[w] = "put_progress"
    /\ Put(Progress(current[w], total))
    /\ w_line' = [ w_line EXCEPT ![w] = 0 ]
    /\ attempt' = [ attempt EXCEPT ![w] = 0 ]
    /\ judgement' = [ judgement EXCEPT ![w] = "" ]
    /\ note' = [ note EXCEPT ![w] = <<>> ]
    /\ current_streak' = [ current_streak EXCEPT ![w] = 0 ]
    /\ current' = [ current EXCEPT ![w] = 0 ]
    /\ Goto(w, "check")
    /\ UNCHANGED << inputVars, stopVars, cancel_flag, mainVars, task_queue,
                    sharedVars, callbacks, history, rank, resets >>

WorkerStep(w) ==
    \/ Check(w) \/ Pull(w) \/ BeginDefect(w) \/ BeginLookup(w)
    \/ ProgressCallback(w) \/ LookupReturnsFinal(w) \/ LookupReturnsRetryable(w)
    \/ Retry(w) \/ LookupRaisesRetryable(w) \/ LookupRaisesCancellation(w)
    \/ LookupRaisesException(w) \/ ErrorLog(w) \/ StreakUpdate(w)
    \/ FailedAppend(w) \/ Count(w) \/ PutRow(w) \/ PutProgress(w)

MainStep == Setup \/ StartWorker \/ Join \/ ReadStop \/ PutDone \/ ClearFlags

StopStep == StopRequest \/ RequestCancelService

Next ==
    \/ MainStep
    \/ StopStep
    \/ \E w \in Workers : WorkerStep(w)

Spec == Init /\ [][Next]_vars

\* threads are scheduled fairly and every lookup call returns or raises;
\* nothing obliges the user to press stop
FairSpec ==
    /\ Spec
    /\ WF_vars(MainStep)
    /\ \A w \in Workers : WF_vars(WorkerStep(w))

(***************************************************************************)
(* run_judgement called with any parallel_count: no value, zero, negative  *)
(* values and values up to MaxRequested, on a list of one row.  The runs   *)
(* of one worker have a row of any input status and any lookup outcomes;   *)
(* the runs of a pool have a blank row, so that at most one worker finds a *)
(* row to take.                                                            *)
(***************************************************************************)
MaxRequested == 9

RequestedParallelism ==
    { NoneParallel } \cup { Parallel(p) : p \in (0 - 1)..MaxRequested }

PoolInit ==
    /\ \E raw \in RawTables(1) :
           /\ rows_data = validate_rows(raw)
           /\ call = [ fn |-> "validate_rows", arg |-> raw, ret |-> << validate_rows(raw) >> ]
    /\ oracle \in OracleSets
    /\ parallel_count \in RequestedParallelism
    /\ target_lines = NoTarget
    /\ \/ parallel_count = NoneParallel
       \/ parallel_count # NoneParallel /\ parallel_count[1] <= 1
       \/ /\ parallel_count # NoneParallel /\ parallel_count[1] > 1
          /\ rows_data = validate_rows(<< RawBlank >>)
          /\ oracle = { Returned(ResAvailable) }
    /\ stop_pc = "idle"
    /\ Called

PoolSpec == PoolInit /\ [][Next]_vars

(***************************************************************************)
(* The functions of core/result_mapping.py, called on their own: a call    *)
(* is made with an argument of CallArgs and returns.                       *)
(***************************************************************************)
MaxSearchNotes == 2

\* a dict with the keys given: opt is <<>> (key absent) or << value >>
Key(k, opt) == IF opt = <<>> THEN <<>> ELSE (k :> opt[1])

Optional(S) == { <<>> } \cup { << x >> : x \in S }

StatusValues == { "available", "unavailable", "cancelled", "failure", "AVAILABLE" }

MessageValues ==
    { <<>>, << "error" >>, << "investigation required" >>,
      << " ", INVESTIGATION_IMAGE_MESSAGE >>, << "area not provided" >> }

AreaValues == { <<>>, << "area under investigation" >> }

\* texts of notes: plain, padded, with separators, with repeated segments,
\* with the generic, the building and the image sentences
NoteValues ==
    { <<>>, << " " >>, << "/" >>, << "A" >>, << " ", "A", " " >>,
      << "A", "/", "B" >>, << "B", " ", "/", " ", "A", "/", "B" >>,
      << "investigation required" >>,
      << GENERIC_RESEARCH_NOTE >>, << BUILDING_NG_NOTE >>,
      << GENERIC_RESEARCH_NOTE, "/", BUILDING_NG_NOTE >>,
      << INVESTIGATION_IMAGE_NOTE, " ", "/", GENERIC_RESEARCH_NOTE >> }

SeqsUpTo(S, n) == UNION { [ 1..k -> S ] : k \in 0..n }

DetailsValues == { [ note |-> n, area |-> a ] : n \in NoteValues, a \in AreaValues }

MapResultArgs ==
    { Key("status", st) @@ Key("message", m) @@ Key("details", d) :
        st \in Optional(StatusValues), m \in Optional(MessageValues),
        d \in Optional(DetailsValues) }

ExtractNoteArgs ==
    { Key("message", m) @@ Key("details", d) @@ Key("search_notes", sn) :
        m \in Optional({ << "error" >>, << " ", INVESTIGATION_IMAGE_MESSAGE >> }),
        d \in Optional({ [ note |-> n, area |-> <<>> ] : n \in NoteValues }),
        sn \in Optional(SeqsUpTo({ << "A" >>, << "B" >>, << "B", "/", "A" >>,
                                   << GENERIC_RESEARCH_NOTE >>, << BUILDING_NG_NOTE >> },
                                 MaxSearchNotes)) }

\* texts of postal codes: MinZipDigits to MaxZipDigits digits, as they are or
\* with one more character put in at any place, bare or between blanks
MaxZipDigits == 8
MinZipDigits == MaxZipDigits - 2

ZipDigits(n) == [ i \in 1..n |-> << "1", "2", "3", "4", "5", "6", "7", "8", "9" >>[i] ]

PutIn(text, c, k) ==
    IF k > Len(text) THEN text
    ELSE SubSeq(text, 1, k) \o << c >> \o SubSeq(text, k + 1, Len(text))

ZipSpellings ==
    LET bare == { ZipDigits(n) : n \in MinZipDigits..MaxZipDigits }
        with == { PutIn(t, c, k) : t \in bare, c \in { "-", " ", "a" } \cup WideHyphens,
                                   k \in 0..MaxZipDigits }
    IN  bare \cup with

NormalizeZipcodeArgs ==
    { <<>>, << " " >>, << "-" >> }
    \cup ZipSpellings
    \cup { << " " >> \o t \o << " ", " " >> : t \in ZipSpellings }

CallArgs(fn) ==
    CASE fn = "map_result" -> MapResultArgs
      [] fn = "extract_note" -> ExtractNoteArgs
      [] fn = "normalize_zipcode" -> NormalizeZipcodeArgs

engineRunVars == << parallel_count, target_lines, oracle, event_queue,
                    stop_flag, cancel_flag, stop_pc, main_pc, started,
                    effective_parallel, total, task_queue, failed_rows, processed,
                    retryable_failure_streak, cancelled, pc, w_line, attempt,
                    judgement, note, current_streak, current, callbacks, history,
                    rank, resets, lockVars >>

engineVars == << rows_data, engineRunVars >>

\* run_judgement has not been called
NoEngine ==
    /\ parallel_count = Parallel(1)
    /\ target_lines = NoTarget
    /\ oracle = {}
    /\ event_queue = <<>>
    /\ stop_flag = FALSE
    /\ cancel_flag = FALSE
    /\ stop_pc = "idle"
    /\ main_pc = "none"
    /\ started = 0
    /\ effective_parallel = 0
    /\ total = 0
    /\ task_queue = <<>>
    /\ failed_rows = <<>>
    /\ processed = 0
    /\ retryable_failure_streak = 0
    /\ cancelled = FALSE
    /\ pc = [ w \in Workers |-> "unstarted" ]
    /\ w_line = [ w \in Workers |-> 0 ]
    /\ attempt = [ w \in Workers |-> 0 ]
    /\ judgement = [ w \in Workers |-> "" ]
    /\ note = [ w \in Workers |-> <<>> ]
    /\ current_streak = [ w \in Workers |-> 0 ]
    /\ current = [ w \in Workers |-> 0 ]
    /\ callbacks = 0
    /\ history = [ l \in Lines |-> <<>> ]
    /\ rank = [ l \in Lines |-> 0 ]
    /\ resets = 0
    /\ LocksFree

\* no table is loaded and no run of the engine is going on
NoRun == rows_data = <<>> /\ NoEngine

CallInit ==
    /\ NoRun
    /\ NoApp
    /\ service_cancel = [ set |-> FALSE, by |-> 0 ]
    /\ \E fn \in { "map_result", "extract_note", "normalize_zipcode" } :
       \E arg \in CallArgs(fn) :
           call = [ fn |-> fn, arg |-> arg, ret |-> <<>> ]

Returns(fn, value) ==
    /\ call.fn = fn
    /\ call.ret = <<>>
    /\ call' = [ call EXCEPT !.ret = << value >> ]
    /\ UNCHANGED << engineVars, appVars >>

Call_map_result == Returns("map_result", map_result(call.arg))

Call_extract_note == Returns("extract_note", extract_note(call.arg))

Call_normalize_zipcode == Returns("normalize_zipcode", normalize_zipcode(call.arg))

CallNext == Call_map_result \/ Call_extract_note \/ Call_normalize_zipcode

CallSpec == CallInit /\ [][CallNext]_vars

Returned_(fn) == call.fn = fn /\ call.ret # <<>>

(***************************************************************************)
(* ui/desktop_app.py: the application starting and stopping runs.  The     *)
(* table loaded holds AppRows valid rows and every run has one worker.     *)
(* The user picks a scope and a target line while no run is going, starts  *)
(* runs from the button or by a double click on a row, and stops them.  A  *)
(* run is the thread of _run_judgement: the steps of run_judgement that    *)
(* read or write the two cancellation signals, the rows and the queue of   *)
(* the run; a lookup ends Available, Failed (an exception) or Stopped (the *)
(* cancellation signal).  The handlers of the UI thread run one at a time; *)
(* stop_judgement is two steps, since the threads of the runs can act      *)
(* between its setting of the stop event and of the service flag.          *)
(***************************************************************************)
NoCall == [ fn |-> "none", arg |-> <<>>, ret |-> <<>> ]

\* the table after load_csv
AppTable == validate_rows([ i \in 1..AppRows |-> RawComplete ])

AppLines == { AppTable[i].line : i \in 1..AppRows }

\* the flag of the Lookup Service is whatever the service starts with
AppInit ==
    /\ rows_data = AppTable
    /\ NoEngine
    /\ call = NoCall
    /\ NoApp
    /\ \E b \in BOOLEAN : service_cancel = [ set |-> b, by |-> 0 ]

RunEvent(type, k, canc) == [ type |-> type, run |-> k, cancelled |-> canc ]

RunGoto(k, to) == run' = [ run EXCEPT ![k].pc = to ]

\* a set of lines as target_lines
TargetSet(lines) == [ is_none |-> FALSE, lines |-> lines ]

\* faulty variant of _resolve_target_lines: without a target line nothing is filtered
_resolve_target_lines_NoneWhenUnset(scope, chosen) ==
    IF scope = "All" \/ chosen = 0 THEN NoTarget
    ELSE IF scope = "SingleLine" THEN TargetSet({ chosen })
    ELSE TargetSet({ rows_data[i].line : i \in { j \in 1..Len(rows_data) : rows_data[j].line >= chosen } })

\* faulty variant of _resolve_target_lines: from the line after the target line on
_resolve_target_lines_AfterLine(scope, chosen) ==
    IF scope = "All" THEN NoTarget
    ELSE IF chosen = 0 THEN TargetSet({})
    ELSE IF scope = "SingleLine" THEN TargetSet({ chosen })
    ELSE TargetSet({ rows_data[i].line : i \in { j \in 1..Len(rows_data) : rows_data[j].line > chosen } })

\* lines 378-396, chosen the execution_target_line (0: None)
_resolve_target_lines(scope, chosen) ==
    IF scope = "All" THEN NoTarget
    ELSE IF chosen = 0 THEN TargetSet({})
    ELSE IF scope = "SingleLine" THEN TargetSet({ chosen })
    ELSE TargetSet({ rows_data[i].line : i \in { j \in 1..Len(rows_data) : rows_data[j].line >= chosen } })

\* lines 402-408: the line of the first row not run or stopped (0: None)
_find_first_unfinished_line ==
    LET unfinished == { i \in 1..Len(rows_data) : rows_data[i].judgement \in { "NotRun", "Stopped" } }
    IN  IF unfinished = {} THEN 0
        ELSE rows_data[CHOOSE i \in unfinished : \A j \in unfinished : i <= j].line

\* faulty variant of NewQueue: every run is given the queue of the first run
NewQueue_Reused(k) == 1

\* the id of the queue that start_judgement makes for run k
NewQueue(k) == k

\* lines 459-509 for the scope and target line given; resume is the answer to
\* the question whether to resume at the first unfinished row
StartRun(scope, chosen, resume) ==
    LET resume_line == _find_first_unfinished_line
        asked == scope = "All" /\ resume_line > 1
        chosen_line == IF asked /\ resume THEN resume_line ELSE chosen
        current_scope == IF asked /\ resume THEN "FromLineOnward" ELSE scope
        final_scope == IF chosen_line # 0 /\ current_scope = "All"
                       THEN "FromLineOnward" ELSE current_scope
        resolved == _resolve_target_lines(final_scope, chosen_line)
    IN  /\ resume => asked
        /\ execution_target_line' = chosen_line
        /\ run_scope' = final_scope
        /\ IF ~ resolved.is_none /\ resolved.lines = {}
           THEN /\ rejected' = Request(scope, chosen, resume)
                /\ UNCHANGED << running, app_event_queue, current_stop_event,
                                run_stop_event, run >>
           ELSE \E k \in Runs :
                  /\ run[k].pc = "none"
                  /\ \A j \in Runs : j < k => run[j].pc # "none"
                  /\ UNCHANGED rejected
                  /\ app_event_queue' = NewQueue(k)
                  /\ current_stop_event' = k
                  /\ run_stop_event' = [ run_stop_event EXCEPT ![k] = FALSE ]
                  /\ run' = [ run EXCEPT ![k] =
                                [ pc |-> "setup", tasks |-> <<>>, stopped |-> FALSE,
                                  queue |-> NewQueue(k), target |-> resolved,
                                  request |-> Request(scope, chosen, resume),
                                  line |-> 0, written |-> <<>> ] ]
                  /\ running' = TRUE

\* the scope combobox, enabled while no run is going (lines 95-104, 657)
select_scope ==
    /\ ui_pc = "idle"
    /\ ~ running
    /\ \E scope \in Scopes \ { run_scope } : run_scope' = scope
    /\ UNCHANGED << engineVars, call, running, app_event_queue, current_stop_event,
                    run_stop_event, service_cancel, run, run_queue, ui_pc,
                    execution_target_line, rejected >>

\* lines 410-423: the button is enabled while no run is going (line 658)
set_target_from_selection ==
    /\ ui_pc = "idle"
    /\ ~ running
    /\ \E line_number \in AppLines \ { execution_target_line } :
           execution_target_line' = line_number
    /\ UNCHANGED << engineVars, call, running, app_event_queue, current_stop_event,
                    run_stop_event, service_cancel, run, run_queue, ui_pc,
                    run_scope, rejected >>

\* lines 425-452 with the answer cancel: the target line is set
on_tree_double_click_cancel ==
    /\ ui_pc = "idle"
    /\ ~ running
    /\ \E line_number \in AppLines \ { execution_target_line } :
           execution_target_line' = line_number
    /\ UNCHANGED << engineVars, call, running, app_event_queue, current_stop_event,
                    run_stop_event, service_cancel, run, run_queue, ui_pc,
                    run_scope, rejected >>

\* lines 425-452 with the answer yes (this row only) or no (from this row on)
on_tree_double_click ==
    /\ ui_pc = "idle"
    /\ ~ running
    /\ \E line_number \in AppLines :
       \E choice \in BOOLEAN :
           StartRun(IF choice THEN "SingleLine" ELSE "FromLineOnward", line_number, FALSE)
    /\ UNCHANGED << engineVars, call, service_cancel, run_queue, ui_pc >>

\* lines 454-509: a new queue and a new stop event, and the thread of the run
start_judgement ==
    /\ ui_pc = "idle"
    /\ ~ running
    /\ rows_data # <<>>
    /\ \E resume \in BOOLEAN : StartRun(run_scope, execution_target_line, resume)
    /\ UNCHANGED << engineVars, call, service_cancel, run_queue, ui_pc >>

\* lines 511-519: the stop event of the current run is set
stop_judgement_set ==
    /\ ui_pc = "idle"
    /\ running
    /\ run_stop_event' = IF current_stop_event # 0
                         THEN [ run_stop_event EXCEPT ![current_stop_event] = TRUE ]
                         ELSE run_stop_event
    /\ run' = IF current_stop_event # 0
              THEN [ run EXCEPT ![current_stop_event].stopped = TRUE ]
              ELSE run
    /\ running' = FALSE
    /\ ui_pc' = "stop"
    /\ UNCHANGED << engineVars, call, app_event_queue, current_stop_event,
                    service_cancel, run_queue, scopeVars >>

\* lines 523-525: request_cancel_service(), a new queue, no stop event
stop_judgement_cancel ==
    /\ ui_pc = "stop"
    /\ service_cancel' = [ set |-> TRUE, by |-> current_stop_event ]
    /\ app_event_queue' = 0
    /\ current_stop_event' = 0
    /\ ui_pc' = "idle"
    /\ UNCHANGED << engineVars, call, running, run_stop_event, run, run_queue,
                    scopeVars >>

\* lines 545-568: one event of the queue the application holds is handled
drain_event_queue ==
    /\ ui_pc = "idle"
    /\ app_event_queue # 0
    /\ run_queue[app_event_queue] # <<>>
    /\ run_queue' = [ run_queue EXCEPT ![app_event_queue] = Tail(@) ]
    /\ running' = IF Head(run_queue[app_event_queue]).type = "done" THEN FALSE ELSE running
    /\ UNCHANGED << engineVars, call, app_event_queue, current_stop_event,
                    run_stop_event, service_cancel, run, ui_pc, scopeVars >>

\* faulty variant of TasksOf: every row is queued
TasksOf_Unfiltered(target) == [ i \in 1..Len(rows_data) |-> rows_data[i].line ]

\* the lines run_judgement queues for a target (judgement_runner.py 59-64)
TasksOf(target) ==
    LET picked == SelectSeq(rows_data,
                            LAMBDA row : target.is_none \/ row.line \in target.lines)
    IN  [ i \in 1..Len(picked) |-> picked[i].line ]

\* a run that does not clear the flag of the service when it starts
run_setup_NoClear(k) ==
    /\ run[k].pc = "setup"
    /\ run' = [ run EXCEPT ![k].pc = "check", ![k].tasks = TasksOf(run[k].target) ]
    /\ UNCHANGED << engineVars, call, running, app_event_queue, current_stop_event,
                    run_stop_event, service_cancel, run_queue, ui_pc, scopeVars >>

\* run_judgement lines 49-66: the tasks are queued and clear_cancel_flags() is called
run_setup(k) ==
    /\ run[k].pc = "setup"
    /\ run' = [ run EXCEPT ![k].pc = "check", ![k].tasks = TasksOf(run[k].target) ]
    /\ service_cancel' = [ set |-> FALSE, by |-> 0 ]
    /\ UNCHANGED << engineVars, call, running, app_event_queue, current_stop_event,
                    run_stop_event, run_queue, ui_pc, scopeVars >>

\* lines 171-183: the worker reads the stop event of its run, then takes a row
worker_loop(k) ==
    /\ run[k].pc = "check"
    /\ run' = [ run EXCEPT ![k] =
                  IF run_stop_event[k] \/ run[k].tasks = <<>>
                  THEN [ @ EXCEPT !.pc = "join" ]
                  ELSE [ @ EXCEPT !.pc = "lookup", !.line = Head(run[k].tasks),
                                  !.tasks = Tail(run[k].tasks) ] ]
    /\ UNCHANGED << engineVars, call, running, app_event_queue, current_stop_event,
                    run_stop_event, service_cancel, run_queue, ui_pc, scopeVars >>

\* what the lookup of a valid row can give the row (lines 138-139, 154-155, 158-159)
RowOutcomes ==
    { [ judgement |-> Mapped(ResAvailable).judgement, note |-> Mapped(ResAvailable).note ],
      [ judgement |-> "Stopped", note |-> NoteStopped ],
      [ judgement |-> "Failed", note |-> NoteRuntimeError ] }

\* faulty variant of WriteRow: a row that has a terminal judgement keeps it
WriteRow_KeepTerminal(line, o) ==
    IF RowOf(line).judgement = "NotRun"
    THEN rows_data' = SetRow(line, o.judgement, o.note)
    ELSE UNCHANGED rows_data

\* lines 138-139, 154-155, 158-159: the row is given the outcome
WriteRow(line, o) == rows_data' = SetRow(line, o.judgement, o.note)

\* lines 68-169: the lookup of the row ends, the row is written and the row
\* event is put
process_row(k) ==
    /\ run[k].pc = "lookup"
    /\ \E o \in RowOutcomes :
           /\ WriteRow(run[k].line, o)
           /\ run' = [ run EXCEPT ![k].pc = "check",
                                  ![k].written = Append(@, [ line |-> run[k].line,
                                                             judgement |-> o.judgement ]) ]
    /\ run_queue' = [ run_queue EXCEPT ![run[k].queue] = Append(@, RunEvent("row", k, FALSE)) ]
    /\ UNCHANGED << engineRunVars, call, running, app_event_queue, current_stop_event,
                    run_stop_event, service_cancel, ui_pc, scopeVars >>

\* lines 191-196: the worker is joined, the stop event is read and Done is put
put_done(k) ==
    /\ run[k].pc = "join"
    /\ run_queue' = [ run_queue EXCEPT ![run[k].queue] =
                        Append(@, RunEvent("done", k, run_stop_event[k])) ]
    /\ RunGoto(k, "clear")
    /\ UNCHANGED << engineVars, call, running, app_event_queue, current_stop_event,
                    run_stop_event, service_cancel, ui_pc, scopeVars >>

\* line 197: clear_cancel_flags() at the end of the run
run_end(k) ==
    /\ run[k].pc = "clear"
    /\ service_cancel' = [ set |-> FALSE, by |-> 0 ]
    /\ RunGoto(k, "ended")
    /\ UNCHANGED << engineVars, call, running, app_event_queue, current_stop_event,
                    run_stop_event, run_queue, ui_pc, scopeVars >>

RunStep(k) == run_setup(k) \/ worker_loop(k) \/ process_row(k) \/ put_done(k) \/ run_end(k)

\* the user starts runs with the button, stops them and starts again
UIStep == start_judgement \/ stop_judgement_set \/ stop_judgement_cancel \/ drain_event_queue

AppNext == UIStep \/ \E k \in Runs : RunStep(k)

AppSpec == AppInit /\ [][AppNext]_vars

\* the user picks scopes and target lines and starts runs, each left to end
ScopeStep ==
    \/ select_scope \/ set_target_from_selection
    \/ on_tree_double_click_cancel \/ on_tree_double_click
    \/ start_judgement \/ drain_event_queue

ScopeNext == ScopeStep \/ \E k \in Runs : RunStep(k)

ScopeSpec == AppInit /\ [][ScopeNext]_vars

(***************************************************************************)
(* process_row at the grain of its with blocks.  A worker waits at a with  *)
(* statement until the lock is free, is then alone inside the block, and   *)
(* frees the lock when it leaves; processed += 1 is a load, an add and a   *)
(* store, and current = processed a further load.  What a worker does      *)
(* outside the blocks is as in the run above: the lookup and its fast      *)
(* retries are the position "lookup", the retry notice, the session reset  *)
(* of a pool of one and the backoff wait are the position "retry".         *)
(***************************************************************************)
\* the engine's arguments, the call on record and the application
callVars == << parallel_count, target_lines, oracle, call, appVars >>

\* the lock of the with statement a worker at this position is at or inside
LockAt(position) ==
    CASE position \in { "defect_append", "failed_append", "except_append" } ->
             "failed_rows_lock"
      [] position \in { "streak_read", "streak_update", "streak_reset" } ->
             "retryable_failure_streak_lock"
      [] position \in { "count", "count_store", "count_read" } -> "processed_lock"
      [] OTHER -> "none"

\* the positions at which a with statement is entered
Entries ==
    { "defect_append", "failed_append", "except_append", "streak_read",
      "streak_update", "count" }

Inside(w) == LockAt(pc[w]) \in LockNames /\ w \in lock[LockAt(pc[w])]

Release(w) == lock' = [ lock EXCEPT ![LockAt(pc[w])] = @ \ { w } ]

\* faulty variant of Acquire: the block is entered whether or not the lock is free
Acquire_NoWait(w) ==
    /\ pc[w] \in Entries
    /\ w \notin lock[LockAt(pc[w])]
    /\ lock' = [ lock EXCEPT ![LockAt(pc[w])] = @ \cup { w } ]
    /\ UNCHANGED << rows_data, callVars, event_queue, stopVars, cancel_flag,
                    mainVars, task_queue, sharedVars, pc, localVars, history,
                    rank, resets, loaded >>

\* lines 77, 119, 142, 147, 151, 160, 164: with <lock>, which waits until the lock is free
Acquire(w) ==
    /\ pc[w] \in Entries
    /\ lock[LockAt(pc[w])] = {}
    /\ lock' = [ lock EXCEPT ![LockAt(pc[w])] = @ \cup { w } ]
    /\ UNCHANGED << rows_data, callVars, event_queue, stopVars, cancel_flag,
                    mainVars, task_queue, sharedVars, pc, localVars, history,
                    rank, resets, loaded >>

\* lines 74-76: a row with an input defect is written
WriteDefect(w) ==
    /\ pc[w] = "begin"
    /\ RowOf(w_line[w]).status # "OK"
    /\ rows_data' = SetRow(w_line[w], "Failed", NoteInputDefect(RowOf(w_line[w]).status))
    /\ Goto(w, "defect_append")
    /\ UNCHANGED << argVars, event_queue, stopVars, cancel_flag, mainVars,
                    task_queue, sharedVars, localVars, history, rank, resets >>

\* lines 78, 152 and 161: failed_rows.append(line_number) inside failed_rows_lock
AppendFailed(w) ==
    /\ LockAt(pc[w]) = "failed_rows_lock"
    /\ Inside(w)
    /\ failed_rows' = Append(failed_rows, w_line[w])
    /\ Release(w)
    /\ Goto(w, IF pc[w] = "except_append" THEN "error_log" ELSE "count")
    /\ UNCHANGED << rows_data, callVars, event_queue, stopVars, cancel_flag,
                    mainVars, task_queue, processed, retryable_failure_streak,
                    localVars, history, rank, resets, loaded >>

\* lines 95-98 and 117: the lookup returns a Failed result with a retryable note
ReturnRetryable(w) ==
    /\ pc[w] = "lookup"
    /\ \E o \in oracle :
         /\ o.kind = "result"
         /\ Mapped(o.result).judgement = "Failed" /\ Mapped(o.result).retryable
         /\ Record(w, o, -1)
         /\ judgement' = [ judgement EXCEPT ![w] = Mapped(o.result).judgement ]
         /\ note' = [ note EXCEPT ![w] = Mapped(o.result).note ]
    /\ Goto(w, "streak_read")
    /\ UNCHANGED << inputVars, event_queue, stopVars, cancel_flag, mainVars,
                    task_queue, sharedVars, w_line, attempt, current_streak,
                    current, callbacks, rank, resets >>

\* faulty variant of ReadStreak: the lock is kept over the retry that follows
ReadStreak_KeepLock(w) ==
    /\ pc[w] = "streak_read"
    /\ Inside(w)
    /\ current_streak' = [ current_streak EXCEPT ![w] = retryable_failure_streak ]
    /\ IF attempt[w] < retry_limit /\ retryable_failure_streak < StreakGate
       THEN /\ Goto(w, "retry")
            /\ UNCHANGED << rows_data, lock >>
       ELSE /\ Goto(w, "streak_update")
            /\ rows_data' = SetRow(w_line[w], judgement[w], note[w])
            /\ Release(w)
    /\ UNCHANGED << callVars, event_queue, stopVars, cancel_flag, mainVars,
                    task_queue, sharedVars, w_line, attempt, judgement, note,
                    current, callbacks, history, rank, resets, loaded >>

\* lines 120-123 and 136-139: the streak is read inside the lock; outside it the
\* worker goes on to a retry, or leaves the loop and writes the row
ReadStreak(w) ==
    /\ pc[w] = "streak_read"
    /\ Inside(w)
    /\ current_streak' = [ current_streak EXCEPT ![w] = retryable_failure_streak ]
    /\ Release(w)
    /\ IF attempt[w] < retry_limit /\ retryable_failure_streak < StreakGate
       THEN /\ Goto(w, "retry")
            /\ UNCHANGED rows_data
       ELSE /\ Goto(w, "streak_update")
            /\ rows_data' = SetRow(w_line[w], judgement[w], note[w])
    /\ UNCHANGED << callVars, event_queue, stopVars, cancel_flag, mainVars,
                    task_queue, sharedVars, w_line, attempt, judgement, note,
                    current, callbacks, history, rank, resets, loaded >>

\* lines 157-159: the lookup raises any other exception and the row is written
RaiseException(w) ==
    /\ pc[w] = "lookup"
    /\ \E o \in oracle :
         /\ o.kind = "Exception"
         /\ Record(w, o, -1)
    /\ rows_data' = SetRow(w_line[w], "Failed", NoteRuntimeError)
    /\ Goto(w, "except_append")
    /\ UNCHANGED << argVars, event_queue, stopVars, cancel_flag, mainVars,
                    task_queue, sharedVars, localVars, rank, resets >>

\* lines 141-150: the streak is advanced or cleared inside the lock; a pool of one
\* that reaches a multiple of ten stays inside for the session reset
UpdateStreak(w) ==
    /\ pc[w] = "streak_update"
    /\ Inside(w)
    /\ IF judgement[w] = "Failed" /\ _is_retryable_driver_failure(note[w])
       THEN /\ retryable_failure_streak' = retryable_failure_streak + 1
            /\ IF effective_parallel = 1
                  /\ (retryable_failure_streak + 1) % ResetEvery = 0
               THEN /\ Goto(w, "streak_reset")
                    /\ UNCHANGED lock
               ELSE /\ Goto(w, "failed_append")
                    /\ Release(w)
       ELSE /\ retryable_failure_streak' = 0
            /\ Goto(w, IF judgement[w] = "Failed" THEN "failed_append" ELSE "count")
            /\ Release(w)
    /\ UNCHANGED << rows_data, callVars, event_queue, stopVars, cancel_flag,
                    mainVars, task_queue, failed_rows, processed, localVars,
                    history, rank, resets, loaded >>

\* line 145: close_active_drivers() inside retryable_failure_streak_lock
ResetInsideLock(w) ==
    /\ pc[w] = "streak_reset"
    /\ Inside(w)
    /\ resets' = resets + 1
    /\ Release(w)
    /\ Goto(w, "failed_append")
    /\ UNCHANGED << rows_data, callVars, event_queue, stopVars, cancel_flag,
                    mainVars, task_queue, sharedVars, localVars, history, rank,
                    loaded >>

\* line 165, processed += 1: processed is loaded
LoadProcessed(w) ==
    /\ pc[w] = "count"
    /\ Inside(w)
    /\ loaded' = [ loaded EXCEPT ![w] = processed ]
    /\ Goto(w, "count_store")
    /\ UNCHANGED << rows_data, callVars, event_queue, stopVars, cancel_flag,
                    mainVars, task_queue, sharedVars, localVars, history, rank,
                    resets, lock >>

\* line 165, processed += 1: the sum is stored
StoreProcessed(w) ==
    /\ pc[w] = "count_store"
    /\ processed' = loaded[w] + 1
    /\ loaded' = [ loaded EXCEPT ![w] = 0 ]
    /\ Goto(w, "count_read")
    /\ UNCHANGED << rows_data, callVars, event_queue, stopVars, cancel_flag,
                    mainVars, task_queue, failed_rows, retryable_failure_streak,
                    localVars, history, rank, resets, lock >>

\* line 166: current = processed, and the end of the with block
ReadCurrent(w) ==
    /\ pc[w] = "count_read"
    /\ current' = [ current EXCEPT ![w] = processed ]
    /\ rank' = [ rank EXCEPT ![w_line[w]] = processed ]
    /\ Release(w)
    /\ Goto(w, "put_row")
    /\ UNCHANGED << rows_data, callVars, event_queue, stopVars, cancel_flag,
                    mainVars, task_queue, sharedVars, w_line, attempt, judgement,
                    note, current_streak, callbacks, history, resets, loaded >>

LockedWorkerStep(w) ==
    \/ Check(w) \/ Pull(w) \/ WriteDefect(w) \/ BeginLookup(w)
    \/ LookupReturnsFinal(w) \/ ReturnRetryable(w) \/ Retry(w)
    \/ LookupRaisesRetryable(w) \/ LookupRaisesCancellation(w)
    \/ RaiseException(w) \/ ErrorLog(w) \/ Acquire(w) \/ AppendFailed(w)
    \/ ReadStreak(w) \/ UpdateStreak(w) \/ ResetInsideLock(w)
    \/ LoadProcessed(w) \/ StoreProcessed(w) \/ ReadCurrent(w)
    \/ PutRow(w) \/ PutProgress(w)

LockNext ==
    \/ MainStep
    \/ \E w \in Workers : LockedWorkerStep(w)

\* the runs of a pool, and the run of one worker whose lookups all fail with a
\* retryable note; no stop is requested
LockInit == Init /\ (parallel_count[1] > 1 \/ Len(rows_data) = MaxStreakRows)

LockSpec == LockInit /\ [][LockNext]_vars

(***************************************************************************)
(* Vocabulary of the properties.                                           *)
(***************************************************************************)
EventsOfType(t) == SelectSeq(event_queue, LAMBDA e : e.type = t)

DoneEvents == EventsOfType("done")

DoneEmitted == DoneEvents # <<>>

\* process_row has returned for the row of this line
Finished(line) == rank[line] > 0 /\ \A w \in Workers : w_line[w] # line

RowEventsOf(line) == SelectSeq(EventsOfType("row"), LAMBDA e : e.row.line = line)

RetryNoticesOf(line) ==
    SelectSeq(EventsOfType("worker_log"),
              LAMBDA e : e.line = line /\ e.kind \in { "fast_retry", "retry" })

Kinds(h) == [ i \in 1..Len(h) |-> h[i].o.kind ]

StrictlyAscending(s) == \A i \in 1..Len(s) : \A j \in 1..Len(s) : i < j => s[i] < s[j]

FailedLines == { rows_data[i].line : i \in { k \in 1..Len(rows_data) : rows_data[k].judgement = "Failed" } }

RunOver == main_pc \in { "clear", "finished" }

UpTo(n) == [ i \in 1..n |-> i ]

(***************************************************************************)
(* C1: a run puts exactly one Done event on the channel, after every       *)
(* other event of the run; no RowUpdated, Progress or WorkerLog event      *)
(* follows it.                                                             *)
(***************************************************************************)
C1_OneDoneLast ==
    /\ Len(DoneEvents) <= 1
    /\ \A i \in 1..Len(event_queue) :
           event_queue[i].type = "done" => i = Len(event_queue)
    /\ RunOver => Len(DoneEvents) = 1

\* a pool of two has finished a run with worker logs, rows and progress before Done
C1_Witness ==
    /\ main_pc = "finished"
    /\ effective_parallel = 2
    /\ Len(event_queue) >= 6
    /\ event_queue[Len(event_queue)].type = "done"
    /\ \E i \in 1..Len(event_queue) : \E j \in 1..Len(event_queue) :
           /\ event_queue[i].type = "worker_log" /\ event_queue[i].worker = 0
           /\ event_queue[j].type = "worker_log" /\ event_queue[j].worker = 1

(***************************************************************************)
(* C2: with threads scheduled fairly and every lookup returning or         *)
(* raising, every run ends: all workers terminate and the Done event is    *)
(* emitted, whatever the rows, the lookup outcomes and the moment of a     *)
(* stop request.                                                           *)
(***************************************************************************)
C2_Terminates ==
    <>( /\ main_pc = "finished"
        /\ \A w \in Workers : pc[w] \in { "unstarted", "terminated" }
        /\ \A w \in Workers : w < effective_parallel => pc[w] = "terminated"
        /\ Len(DoneEvents) = 1 )

\* a run has ended after one lookup raised a generic error and another the
\* cancellation signal
C2_Witness ==
    /\ main_pc = "finished"
    /\ DoneEmitted
    /\ \E l1 \in Lines : \E l2 \in Lines :
           /\ history[l1] # <<>> /\ history[l1][Len(history[l1])].o.kind = "Exception"
           /\ history[l2] # <<>> /\ history[l2][Len(history[l2])].o.kind = "CancellationError"

(***************************************************************************)
(* C3: the failed-line list carried by Done is strictly ascending and is   *)
(* exactly the set of lines of the rows the run left Failed, whatever the  *)
(* order in which the workers completed them.                              *)
(***************************************************************************)
C3_FailedLinesSortedExact ==
    \A i \in 1..Len(event_queue) :
        event_queue[i].type = "done" =>
            /\ StrictlyAscending(event_queue[i].failed_rows)
            /\ SeqRange(event_queue[i].failed_rows) = FailedLines

\* a pool of two failed row 2 before row 1 and has emitted Done
C3_Witness ==
    /\ DoneEmitted
    /\ effective_parallel = 2
    /\ failed_rows = << 2, 1 >>

(***************************************************************************)
(* C4, as claimed: every processed row has exactly one RowUpdated and      *)
(* exactly one Progress event, and the events of the rows are on the       *)
(* channel in the order in which the rows finished (the order in which     *)
(* process_row counted them).                                              *)
(***************************************************************************)
C4_EventsInFinishOrder ==
    /\ \A l \in Lines :
           Finished(l) =>
               /\ Len(RowEventsOf(l)) = 1
               /\ Len(SelectSeq(EventsOfType("progress"),
                                LAMBDA e : e.current = rank[l])) = 1
    /\ LET re == EventsOfType("row")
       IN  \A i \in 1..Len(re) : \A j \in 1..Len(re) :
               i < j => rank[re[i].row.line] < rank[re[j].row.line]
    /\ LET pe == EventsOfType("progress")
       IN  \A i \in 1..Len(pe) : \A j \in 1..Len(pe) :
               i < j => pe[i].current < pe[j].current

(***************************************************************************)
(* C5: one worker, scope All, N valid rows, no stop request: the run       *)
(* emits exactly N Progress events with current = 1, 2, ..., N in channel  *)
(* order and total = N, the rows are processed in row-list order, and      *)
(* Done carries cancelled = false.                                         *)
(***************************************************************************)
C5_SequentialProgress ==
    ( /\ RunOver
      /\ effective_parallel = 1
      /\ target_lines.is_none
      /\ ValidRows(rows_data) = 1..Len(rows_data)
      /\ ~ stop_flag )
    => LET pe == EventsOfType("progress")
           re == EventsOfType("row")
           n == Len(rows_data)
       IN  /\ [ i \in 1..Len(pe) |-> pe[i].current ] = UpTo(n)
           /\ \A i \in 1..Len(pe) : pe[i].total = n
           /\ [ i \in 1..Len(re) |-> re[i].row.line ] = UpTo(n)
           /\ DoneEvents[1].cancelled = FALSE

\* such a run of four rows is over
C5_Witness ==
    /\ main_pc = "finished"
    /\ effective_parallel = 1
    /\ target_lines.is_none
    /\ Len(rows_data) = 4
    /\ ValidRows(rows_data) = 1..4
    /\ ~ stop_flag
    /\ Len(EventsOfType("progress")) = 4

(***************************************************************************)
(* C6, as claimed: once the stop-requested flag is set during a run, no    *)
(* worker takes a row from the task queue, and the Done event of the run   *)
(* carries cancelled = true.                                               *)
(***************************************************************************)
C6_NoPullAfterStop ==
    [][ /\ (stop_flag /\ main_pc = "spawn") => task_queue' = task_queue
        /\ (stop_flag /\ ~ DoneEmitted /\ DoneEmitted') =>
               event_queue'[Len(event_queue')].cancelled = TRUE ]_vars

(***************************************************************************)
(* C7: a valid row that is processed has its lookup invoked at least once  *)
(* and no row has it invoked more than 3 times, whatever mix of transient  *)
(* errors and retryable Failed results the attempts produce.               *)
(***************************************************************************)
C7_LookupCallsBounded ==
    \A l \in Lines :
        /\ Len(history[l]) <= retry_limit
        /\ (Finished(l) /\ RowOf(l).status = "OK") => Len(history[l]) >= 1

\* a row was looked up three times, through both retry paths
C7_Witness ==
    \E l \in Lines :
        /\ Finished(l)
        /\ Len(history[l]) = 3
        /\ "RetryableWebDriverError" \in SeqRange(Kinds(history[l]))
        /\ "result" \in SeqRange(Kinds(SubSeq(history[l], 1, 2)))

(***************************************************************************)
(* C8: a row whose lookup raises a transient-driver error on attempts 1    *)
(* and 2 and returns a result on attempt 3 ends with the judgement and     *)
(* note mapped from that result, and exactly two retry notices are logged  *)
(* for it.                                                                 *)
(***************************************************************************)
C8_ThirdAttemptResult ==
    \A l \in Lines :
        ( /\ Finished(l)
          /\ Kinds(history[l]) = << "RetryableWebDriverError", "RetryableWebDriverError", "result" >> )
        => /\ RowOf(l).judgement = map_result(history[l][3].o.result)
           /\ RowOf(l).note = extract_note(history[l][3].o.result)
           /\ Len(RetryNoticesOf(l)) = 2
           /\ (RowOf(l).judgement # "Failed" => l \notin SeqRange(failed_rows))

\* such a row has ended Available
C8_Witness ==
    \E l \in Lines :
        /\ Finished(l)
        /\ Kinds(history[l]) = << "RetryableWebDriverError", "RetryableWebDriverError", "result" >>
        /\ RowOf(l).judgement = "Available"

(***************************************************************************)
(* C9: a row whose lookup raises a transient-driver error on every attempt *)
(* ends Failed with the retries-exhausted note after exactly 3 lookups,    *)
(* its line is in the failed-line list of Done, and the run goes on: a run *)
(* that was not stopped has processed every row in scope when it emits     *)
(* Done.                                                                   *)
(***************************************************************************)
AllTransient(l) ==
    /\ history[l] # <<>>
    /\ \A i \in 1..Len(history[l]) : history[l][i].o.kind = "RetryableWebDriverError"

C9_TransientExhausted ==
    \A l \in Lines :
        /\ (Finished(l) /\ AllTransient(l)) =>
               /\ Len(history[l]) = 3
               /\ RowOf(l).judgement = "Failed"
               /\ RowOf(l).note = NoteRetriesExhausted
               /\ l \in SeqRange(failed_rows)
        /\ (DoneEmitted /\ AllTransient(l)) =>
               /\ l \in SeqRange(DoneEvents[1].failed_rows)
               /\ ~ DoneEvents[1].cancelled =>
                      \A i \in 1..Len(QueuedLines) : Finished(QueuedLines[i])

\* both rows of a run exhausted their retries and Done lists them
C9_Witness ==
    /\ DoneEmitted
    /\ ~ DoneEvents[1].cancelled
    /\ DoneEvents[1].failed_rows = << 1, 2 >>
    /\ AllTransient(1) /\ AllTransient(2)

(***************************************************************************)
(* C10: a lookup result is followed by another lookup of the row only if   *)
(* it maps to Failed with a retryable note, the attempt number is below 3  *)
(* and the streak counter read after it is below 3; a result that is not   *)
(* Failed, or whose note does not match, or after which the streak read is *)
(* 3 or more, is the last lookup of the row and is written to the row.     *)
(***************************************************************************)
RetryableResults ==
    { r \in LookupResults :
        map_result(r) = "Failed" /\ _is_retryable_driver_failure(extract_note(r)) }

RetryableResult(r) == r \in RetryableResults

C10_HeuristicRetryGate ==
    \A l \in Lines : \A i \in 1..Len(history[l]) :
        LET h == history[l][i]
        IN  h.o.kind = "result" =>
              /\ i < Len(history[l]) =>
                     /\ RetryableResult(h.o.result)
                     /\ i < retry_limit
                     /\ h.streak \in 0..(StreakGate - 1)
              /\ (~ RetryableResult(h.o.result) \/ h.streak >= StreakGate) =>
                     /\ i = Len(history[l])
                     /\ RowOf(l).judgement = map_result(h.o.result)
                     /\ RowOf(l).note = extract_note(h.o.result)
                     /\ \A w \in Workers : w_line[w] = l => pc[w] # "retry"

\* a retryable Failed result was accepted on the first attempt because the
\* streak had reached 3
C10_Witness ==
    \E l \in Lines :
        /\ Finished(l)
        /\ Len(history[l]) = 1
        /\ history[l][1].o.kind = "result"
        /\ RetryableResult(history[l][1].o.result)
        /\ history[l][1].streak = StreakGate

(***************************************************************************)
(* C11: a lookup that raises the cancellation signal is the last lookup of *)
(* its row; the row ends Stopped with the interruption note, its line is   *)
(* not in the failed-line list, and its RowUpdated and Progress events are *)
(* emitted.                                                                *)
(***************************************************************************)
HasKind(l, k) == \E i \in 1..Len(history[l]) : history[l][i].o.kind = k

LastKind(l) == history[l][Len(history[l])].o.kind

ProgressEventsOf(l) ==
    SelectSeq(EventsOfType("progress"), LAMBDA e : e.current = rank[l])

Occurrences(s, x) == Cardinality({ i \in 1..Len(s) : s[i] = x })

TerminalJudgements == { "Available", "Unavailable", "InvestigateNeeded", "Stopped", "Failed" }

C11_CancellationStopsRow ==
    \A l \in Lines :
        HasKind(l, "CancellationError") =>
            /\ LastKind(l) = "CancellationError"
            /\ RowOf(l).judgement = "Stopped"
            /\ RowOf(l).note = NoteStopped
            /\ l \notin SeqRange(failed_rows)
            /\ Finished(l) =>
                   /\ Len(RowEventsOf(l)) = 1
                   /\ RowEventsOf(l)[1].row.judgement = "Stopped"
                   /\ Len(ProgressEventsOf(l)) = 1

\* a row was stopped on its second attempt, after one retry, and is finished
C11_Witness ==
    \E l \in Lines :
        /\ Finished(l)
        /\ Kinds(history[l]) = << "RetryableWebDriverError", "CancellationError" >>

(***************************************************************************)
(* C12: a lookup that raises a generic exception is the last lookup of its *)
(* row, even after retried attempts; the row ends Failed with the          *)
(* exception text as note and its line is in the failed-line list exactly  *)
(* once.                                                                   *)
(***************************************************************************)
C12_GenericErrorFailsRow ==
    \A l \in Lines :
        HasKind(l, "Exception") =>
            /\ LastKind(l) = "Exception"
            /\ RowOf(l).judgement = "Failed"
            /\ RowOf(l).note = NoteRuntimeError
            /\ Occurrences(failed_rows, l) = 1
            /\ DoneEmitted => Occurrences(DoneEvents[1].failed_rows, l) = 1

\* a row crashed on its third attempt, after two retries, and Done lists it
C12_Witness ==
    \E l \in Lines :
        /\ DoneEmitted
        /\ Len(history[l]) = 3
        /\ LastKind(l) = "Exception"
        /\ l \in SeqRange(DoneEvents[1].failed_rows)

(***************************************************************************)
(* C13: when a run in which the stop flag was never set is over, every row *)
(* in scope has been processed and holds a terminal judgement, whatever    *)
(* happened to the other rows.                                             *)
(***************************************************************************)
C13_NoRowFailureStopsRun ==
    (RunOver /\ ~ stop_flag) =>
        \A i \in 1..Len(rows_data) :
            InTarget(rows_data[i].line) =>
                /\ Finished(rows_data[i].line)
                /\ rows_data[i].judgement \in TerminalJudgements

\* such a run of a pool is over with a defective row and a stopped row
C13_Witness ==
    /\ main_pc = "finished"
    /\ ~ stop_flag
    /\ effective_parallel > 1
    /\ \E i \in 1..Len(rows_data) : \E j \in 1..Len(rows_data) :
           /\ rows_data[i].status # "OK" /\ rows_data[i].judgement = "Failed"
           /\ rows_data[j].judgement = "Stopped"

(***************************************************************************)
(* C14: for a row in scope whose input status is not OK the lookup is      *)
(* never called; once processed the row is Failed with the input-defect    *)
(* note, has its RowUpdated and Progress events, and its line is in the    *)
(* failed-line list of Done.                                               *)
(***************************************************************************)
C14_InputDefectRow ==
    \A l \in 1..Len(rows_data) :
        RowOf(l).status # "OK" =>
            /\ history[l] = <<>>
            /\ \A i \in 1..Len(event_queue) :
                   event_queue[i].type = "worker_log" => event_queue[i].line # l
            /\ Finished(l) =>
                   /\ RowOf(l).judgement = "Failed"
                   /\ RowOf(l).note = NoteInputDefect(RowOf(l).status)
                   /\ Len(RowEventsOf(l)) = 1
                   /\ Len(ProgressEventsOf(l)) = 1
                   /\ DoneEmitted => l \in SeqRange(DoneEvents[1].failed_rows)

\* a defective row was processed after a valid one and Done lists it
C14_Witness ==
    /\ DoneEmitted
    /\ Len(rows_data) = 2
    /\ rows_data[1].status = "OK" /\ Finished(1)
    /\ rows_data[2].status # "OK" /\ Finished(2)
    /\ DoneEvents[1].failed_rows = << 2 >>

\* the cell at position i of a raw row is missing, None or white space
EmptyCell(raw, i) == Len(raw) < i \/ raw[i].is_none \/ strip(raw[i].text) = <<>>

\* the raw row behind line l of the table of this run
RawOf(l) == call.arg[RowIndex(l)]

\* no worker has taken line l
Untouched(l) == rank[l] = 0 /\ \A w \in Workers : w_line[w] # l

C17_SignalsDoNotLeak ==
    /\ [](\A k \in Runs :
            /\ run_stop_event[k] => run[k].stopped
            /\ (run[k].pc \in { "check", "lookup" } /\ service_cancel.set)
                   => service_cancel.by >= k)
    /\ [](ui_pc = "idle" =>
            (current_stop_event = 0 \/ ~ run_stop_event[current_stop_event]))
    /\ [][\A k \in Runs :
            (\/ run[k].pc = "setup" /\ run'[k].pc # "setup"
             \/ run[k].pc = "clear" /\ run'[k].pc # "clear")
                => ~ service_cancel'.set]_vars

\* the second run is in a lookup, with both signals clear, after the first
\* run was stopped and while the thread of the first has not ended
C17_Witness ==
    /\ run[1].stopped /\ run_stop_event[1]
    /\ run[1].pc \notin { "none", "ended" }
    /\ run[2].pc = "lookup"
    /\ ~ run_stop_event[2]
    /\ ~ service_cancel.set

(***************************************************************************)
(* Vocabulary of the properties of the result mapper.                      *)
(***************************************************************************)
Field(r, k, default) == IF k \in DOMAIN r THEN r[k] ELSE default

NoDetails == [ note |-> <<>>, area |-> <<>> ]

\* an investigation marker in the message, the details note or the area text
InvestigationMarked(r) ==
    \/ Contains(Field(r, "message", <<>>), "manual re-search required")
    \/ Contains(Field(r, "message", <<>>), "investigation")
    \/ Contains(Field(r, "details", NoDetails).note, "investigation")
    \/ Contains(Field(r, "details", NoDetails).area, "investigation")

UnavailableMarked(r) == Contains(Field(r, "message", <<>>), "not provided")

MappedJudgements == { "InvestigateNeeded", "Available", "Unavailable", "Stopped", "Failed" }

\* the precedence of the rules, for a result r mapped to v, its status read as status
MapResultRule(r, v, status) ==
    /\ v \in MappedJudgements
    /\ InvestigationMarked(r) => v = "InvestigateNeeded"
    /\ (~InvestigationMarked(r) /\ status = "available") => v = "Available"
    /\ (~InvestigationMarked(r) /\ status = "unavailable") => v = "Unavailable"
    /\ (~InvestigationMarked(r) /\ status = "cancelled") => v = "Stopped"
    /\ (/\ ~InvestigationMarked(r)
        /\ status \notin { "available", "unavailable", "cancelled" }
        /\ UnavailableMarked(r)) => v = "Unavailable"
    /\ (/\ ~InvestigationMarked(r)
        /\ status \notin { "available", "unavailable", "cancelled" }
        /\ ~UnavailableMarked(r)) => v = "Failed"

\* the non-empty trimmed segments of a text split on "/"
Segments(text) ==
    LET pieces == split(text)
    IN  SelectSeq([ i \in 1..Len(pieces) |-> strip(pieces[i]) ], LAMBDA seg : seg # <<>>)

RECURSIVE SegmentsOfAll(_)
SegmentsOfAll(items) ==
    IF items = <<>> THEN <<>> ELSE Segments(Head(items)) \o SegmentsOfAll(Tail(items))

\* the segments of the details note followed by those of each search note
Collected(r) ==
    Segments(Field(r, "details", NoDetails).note) \o SegmentsOfAll(Field(r, "search_notes", <<>>))

RECURSIVE FirstOccurrences(_)
FirstOccurrences(s) ==
    IF s = <<>> THEN <<>>
    ELSE LET front == SubSeq(s, 1, Len(s) - 1)
             last == s[Len(s)]
         IN  IF last \in SeqRange(front) THEN FirstOccurrences(front)
             ELSE Append(FirstOccurrences(front), last)

SpecificIn(s) ==
    << INVESTIGATION_IMAGE_NOTE >> \in SeqRange(s) \/ << BUILDING_NG_NOTE >> \in SeqRange(s)

\* the collected segments, at first occurrence, joined
NoteOfSegments(r) == join(FirstOccurrences(Collected(r)))

\* the same with the image note added for the manual re-search message and
\* the generic sentence dropped next to a specific one
NoteWithDiagnostics(r) ==
    LET image == IF Contains(Field(r, "message", <<>>), INVESTIGATION_IMAGE_MESSAGE)
                 THEN << << INVESTIGATION_IMAGE_NOTE >> >> ELSE <<>>
        distinct == FirstOccurrences(Collected(r) \o image)
    IN  join(IF SpecificIn(distinct)
             THEN SelectSeq(distinct, LAMBDA seg : seg # << GENERIC_RESEARCH_NOTE >>)
             ELSE distinct)

(***************************************************************************)
(* C18: map_result applies its rules in precedence order, the first match  *)
(* winning: an investigation marker gives InvestigateNeeded whatever the   *)
(* status; otherwise the status, compared without regard to letter case,   *)
(* gives Available, Unavailable or Stopped; otherwise an unavailable       *)
(* marker in the message gives Unavailable; otherwise Failed.  The value   *)
(* is always one of these five.                                            *)
(***************************************************************************)
C18_MapResultPrecedence ==
    Returned_("map_result") =>
        MapResultRule(call.arg, call.ret[1], LowerToken(Field(call.arg, "status", "")))

\* an available result with an investigation marker was mapped
C18_Witness ==
    /\ Returned_("map_result")
    /\ InvestigationMarked(call.arg)
    /\ Field(call.arg, "status", "") = "available"
    /\ call.ret[1] = "InvestigateNeeded"

\* C18 as stated: the status is compared with the three words as they are
C18_StatusComparedExactly ==
    Returned_("map_result") =>
        MapResultRule(call.arg, call.ret[1], Field(call.arg, "status", ""))

(***************************************************************************)
(* C19: the note of extract_note is the non-empty trimmed segments of the  *)
(* details note followed by those of each search note, followed by the     *)
(* image note when the message holds the manual re-search sentence, each   *)
(* segment kept at its first occurrence only, the generic sentence left    *)
(* out when a specific one is among them, joined by " / ".                 *)
(***************************************************************************)
C19_NoteIsDistinctSegments ==
    Returned_("extract_note") => call.ret[1] = NoteWithDiagnostics(call.arg)

\* details note "A" with search notes ["A", "B"] gave "A / B"
C19_Witness ==
    /\ Returned_("extract_note")
    /\ Field(call.arg, "details", NoDetails).note = << "A" >>
    /\ Field(call.arg, "search_notes", <<>>) = << << "A" >>, << "B" >> >>
    /\ "message" \notin DOMAIN call.arg
    /\ call.ret[1] = << "A", " ", "/", " ", "B" >>

\* C19 as stated: nothing but the collected segments makes the note
C19_NoteIsCollectedSegmentsOnly ==
    Returned_("extract_note") => call.ret[1] = NoteOfSegments(call.arg)

(***************************************************************************)
(* C20: a note that holds a specific diagnostic segment does not hold the  *)
(* generic sentence, in whatever order they were collected; a note without *)
(* a specific segment keeps the generic sentence that was collected.       *)
(***************************************************************************)
C20_GenericDroppedBySpecific ==
    Returned_("extract_note") =>
        LET segs == Segments(call.ret[1])
        IN  /\ SpecificIn(segs) => << GENERIC_RESEARCH_NOTE >> \notin SeqRange(segs)
            /\ (/\ ~SpecificIn(segs)
                /\ << GENERIC_RESEARCH_NOTE >> \in SeqRange(Collected(call.arg)))
               => << GENERIC_RESEARCH_NOTE >> \in SeqRange(segs)

\* the generic sentence was collected before the building sentence and dropped
C20_Witness ==
    /\ Returned_("extract_note")
    /\ Field(call.arg, "details", NoDetails).note = << GENERIC_RESEARCH_NOTE, "/", BUILDING_NG_NOTE >>
    /\ call.ret[1] = << BUILDING_NG_NOTE >>

(***************************************************************************)
(* C29: normalize_zipcode turns every text holding exactly seven digits,   *)
(* with or without a hyphen, into the three first digits, a hyphen and the *)
(* four last, so that the spellings of one postal code get one value; and  *)
(* normalising its result again changes nothing.                           *)
(***************************************************************************)
C29_ZipcodeCanonical ==
    Returned_("normalize_zipcode") =>
        LET d == SelectSeq(call.arg, LAMBDA c : c \in Digits)
            v == call.ret[1]
        IN  /\ Len(d) = 7 =>
                   v = << d[1], d[2], d[3], "-", d[4], d[5], d[6], d[7] >>
            /\ normalize_zipcode(v) = v

\* the seven digits written without a hyphen were given the hyphen
C29_Witness ==
    /\ Returned_("normalize_zipcode")
    /\ call.arg = << "1", "2", "3", "4", "5", "6", "7" >>
    /\ call.ret[1] = << "1", "2", "3", "-", "4", "5", "6", "7" >>

(***************************************************************************)
(* The streak of retryable failures (judgement_runner.py 141-148).         *)
(***************************************************************************)

RetryableFailure(row) ==
    row.judgement = "Failed" /\ _is_retryable_driver_failure(row.note)

\* the streak a run of one worker would hold after the row of line k if every
\* row in scope counted: the retryable failures that end the rows up to k
RECURSIVE TrailingRetryable(_)
TrailingRetryable(k) ==
    IF k = 0 THEN 0
    ELSE IF ~ InTarget(k) THEN TrailingRetryable(k - 1)
    ELSE IF RetryableFailure(RowOf(k)) THEN 1 + TrailingRetryable(k - 1)
    ELSE 0

\* C30 as stated: when a row of a run of one worker completes, the streak is
\* one more than before if the row is a retryable failure and 0 after any other
\* outcome, so it equals the number of retryable failures that end the rows
\* completed so far
C30_EveryOutcomeSetsStreak ==
    \A w \in Workers :
        (effective_parallel = 1 /\ pc[w] = "count") =>
            retryable_failure_streak = TrailingRetryable(w_line[w])

(***************************************************************************)
(* The log events of one worker (judgement_runner.py 82-85, 99-134,        *)
(* 153-162).                                                               *)
(***************************************************************************)

\* the worker_log events of worker w, in channel order
LogOf(w) == SelectSeq(event_queue, LAMBDA e : e.type = "worker_log" /\ e.worker = w)

\* the place of a log event in the processing of its row: the start notice,
\* then for each attempt the progress reports of the lookup, the retry notice,
\* and the notice of a stop or an error
StageOf(e) ==
    IF e.kind = "start" THEN 0
    ELSE 3 * e.attempt + (CASE e.kind = "progress" -> 0
                            [] e.kind \in { "retry", "fast_retry" } -> 1
                            [] OTHER -> 2)

\* the order in which one worker emits two log events
EmittedBefore(e, f) ==
    \/ e.line < f.line
    \/ e.line = f.line /\ StageOf(e) < StageOf(f)
    \/ e.line = f.line /\ StageOf(e) = StageOf(f) /\ e.kind = "progress"

\* the event a step puts on the channel, if any
Emitted == IF Len(event_queue') = Len(event_queue) + 1
           THEN << event_queue'[Len(event_queue')] >> ELSE <<>>

\* C25: every worker_log event is put on the channel by the worker whose index
\* it carries, while that worker holds the row the event is about, and the
\* worker_log events of one worker lie on the channel in the order the worker
\* emits them: rows in the order taken, and for a row the start notice, then
\* progress and retry notices in attempt order
C25_WorkerLogOrdered ==
    /\ [](\A w \in Workers :
            \A i, j \in 1..Len(LogOf(w)) :
                i < j => EmittedBefore(LogOf(w)[i], LogOf(w)[j]))
    /\ [](\A i \in 1..Len(event_queue) :
            event_queue[i].type = "worker_log" => event_queue[i].worker \in Workers)
    /\ [][\A i \in 1..Len(Emitted) :
            Emitted[i].type = "worker_log" =>
                /\ w_line[Emitted[i].worker] = Emitted[i].line
                /\ pc[Emitted[i].worker] \in { "begin", "lookup", "retry", "error_log" }
                /\ \A v \in Workers \ { Emitted[i].worker } :
                       /\ pc'[v] = pc[v]
                       /\ attempt'[v] = attempt[v]]_vars

\* worker 1 has put the start notice and the retry notices of attempts 1 and 2
\* of its row on the channel, and events of the row of worker 0 lie between them
C25_Witness ==
    /\ effective_parallel = 2
    /\ Len(LogOf(1)) >= 3
    /\ LogOf(1)[1].kind = "start"
    /\ LogOf(1)[2].attempt = 1
    /\ LogOf(1)[3].attempt = 2
    /\ \E i, j, k \in 1..Len(event_queue) :
           /\ i < j /\ j < k
           /\ event_queue[i] = LogOf(1)[1]
           /\ event_queue[j].type = "row"
           /\ event_queue[k] = LogOf(1)[3]

(***************************************************************************)
(* The snapshot carried by a row event (judgement_runner.py 138-139,       *)
(* 153-169).                                                               *)
(***************************************************************************)

\* the judgement and note that the last thing that happened to the row of this
\* line gives it: the input defect, or the outcome of its last lookup
FinalPair(line) ==
    LET row == RowOf(line)
        h == history[line]
        last == h[Len(h)].o
    IN  IF row.status # "OK"
        THEN [ judgement |-> "Failed", note |-> NoteInputDefect(row.status) ]
        ELSE CASE last.kind = "result" ->
                    [ judgement |-> Mapped(last.result).judgement,
                      note |-> Mapped(last.result).note ]
               [] last.kind = "RetryableWebDriverError" ->
                    [ judgement |-> "Failed", note |-> NoteRetriesExhausted ]
               [] last.kind = "CancellationError" ->
                    [ judgement |-> "Stopped", note |-> NoteStopped ]
               [] OTHER ->
                    [ judgement |-> "Failed", note |-> NoteRuntimeError ]

\* C26: the row event of a row carries the row's final judgement and final
\* note together: the judgement is terminal, never NotRun, judgement and note
\* both come from the last outcome of the row, the snapshot equals the row as
\* the run leaves it, and an event on the channel is never changed afterwards
C26_RowEventIsFinalSnapshot ==
    /\ [](\A i \in 1..Len(event_queue) :
            event_queue[i].type = "row" =>
                LET snapshot == event_queue[i].row
                IN  /\ snapshot.judgement \in TerminalJudgements
                    /\ snapshot.judgement = FinalPair(snapshot.line).judgement
                    /\ snapshot.note = FinalPair(snapshot.line).note
                    /\ snapshot = RowOf(snapshot.line))
    /\ [][SubSeq(event_queue', 1, Len(event_queue)) = event_queue]_vars

\* the row event of a row that was retried after a retryable failure and then
\* found Available lies on the channel, and the row after it has been processed
C26_Witness ==
    \E i, j \in 1..Len(event_queue) :
        /\ i < j
        /\ event_queue[i].type = "row"
        /\ event_queue[j].type = "row"
        /\ LET h == history[event_queue[i].row.line]
           IN  /\ Len(h) >= 2
               /\ h[1].o = Returned(ResDriverFailure)
               /\ h[Len(h)].o = Returned(ResAvailable)
        /\ event_queue[i].row.judgement = "Available"

(***************************************************************************)
(* The number of workers (judgement_runner.py 57, 185-192).                *)
(***************************************************************************)

\* the worker threads that have been started
StartedWorkers == { w \in Workers : pc[w] # "unstarted" }

\* C24: the pool size is the parallel_count clamped to 1..8, a missing, zero
\* or negative value giving 1 and a value above 8 giving 8; the workers started
\* are never others than those of index 0..P-1, and once the calling thread
\* has started its threads they are exactly those, however few rows are in scope
C24_ClampedWorkers ==
    LET P == IF parallel_count = NoneParallel THEN 1
             ELSE IF parallel_count[1] <= 0 THEN 1
             ELSE IF parallel_count[1] > 8 THEN 8
             ELSE parallel_count[1]
    IN  /\ main_pc # "setup" => effective_parallel = P
        /\ StartedWorkers \subseteq 0..(P - 1)
        /\ started = Cardinality(StartedWorkers)
        /\ main_pc \notin { "setup", "spawn" } => StartedWorkers = 0..(P - 1)

\* a run asked for more than 8 workers on one row has ended with workers 0..7
\* started
C24_Witness ==
    /\ parallel_count = Parallel(MaxWorkers + 1)
    /\ main_pc = "finished"
    /\ Len(rows_data) = 1
    /\ StartedWorkers = 0..7

(***************************************************************************)
(* Scope and target line of a run (ui/desktop_app.py 378-396, 454-509;     *)
(* judgement_runner.py 59-64).                                             *)
(***************************************************************************)

\* the runs that were started
StartedRuns == { k \in Runs : run[k].pc # "none" }

\* the thread of run k has processed its tasks and is past its worker
RunDone(k) == run[k].pc \in { "join", "clear", "ended" }

\* the lines of the rows run k wrote
WrittenLines(k) == { run[k].written[i].line : i \in 1..Len(run[k].written) }

\* the lines of the row list from line n on
LinesFrom(n) == { rows_data[i].line : i \in { j \in 1..Len(rows_data) : rows_data[j].line >= n } }

AllLines == LinesFrom(0)

\* C21: a request to start a run with scope SingleLine or FromLineOnward and
\* no target line starts no run; the step that refuses it starts no thread,
\* makes no queue or stop event, changes no row and puts no event
C21_NoTargetNoRun ==
    /\ [](\A k \in StartedRuns :
            ~ ( /\ run[k].request.scope \in { "SingleLine", "FromLineOnward" }
                /\ run[k].request.chosen = 0 ))
    /\ [](rejected # NoRequest =>
            /\ rejected.scope \in { "SingleLine", "FromLineOnward" }
            /\ rejected.chosen = 0)
    /\ [][rejected' # rejected =>
            /\ rejected' = Request(run_scope, execution_target_line, FALSE)
            /\ UNCHANGED << rows_data, run, run_queue, running, app_event_queue,
                            current_stop_event, run_stop_event, run_scope,
                            execution_target_line >>]_vars

\* a request with scope SingleLine and no target line was refused: no run was
\* started and every row is still not run
C21_Witness ==
    /\ rejected = Request("SingleLine", 0, FALSE)
    /\ StartedRuns = {}
    /\ ~ running
    /\ \A i \in 1..Len(rows_data) : rows_data[i].judgement = "NotRun"
    /\ \A k \in Runs : run_queue[k] = <<>>

\* C22: a run requested with scope SingleLine and target line n has the
\* target { n }, one requested with scope FromLineOnward the lines of the row
\* list that are >= n; the run writes rows of its target only, each once, and
\* has written them all when its worker has ended; a row in the target of no
\* run is left not run
C22_ScopeResolved ==
    /\ \A k \in StartedRuns :
          LET r == run[k].request
          IN  (r.scope # "All" /\ r.chosen # 0) =>
                  /\ r.scope = "SingleLine" => run[k].target = TargetSet({ r.chosen })
                  /\ r.scope = "FromLineOnward" =>
                         run[k].target = TargetSet({ l \in AllLines : l >= r.chosen })
                  /\ WrittenLines(k) \subseteq run[k].target.lines
                  /\ Len(run[k].written) = Cardinality(WrittenLines(k))
                  /\ RunDone(k) => WrittenLines(k) = run[k].target.lines
    /\ \A l \in AllLines :
          (\A k \in StartedRuns : ~ run[k].target.is_none /\ l \notin run[k].target.lines)
              => RowOf(l).judgement = "NotRun"

\* a run requested from line 2 on has ended: it wrote row 2 and row 1 is not run
C22_Witness ==
    /\ run[1].request = Request("FromLineOnward", 2, FALSE)
    /\ run[1].pc = "ended"
    /\ WrittenLines(1) = { l \in AllLines : l >= 2 }
    /\ RowOf(1).judgement = "NotRun"
    /\ RowOf(2).judgement # "NotRun"

JustWritten(k) == run'[k].written[Len(run'[k].written)]

\* run k writes a row in this step
Writes(k) == Len(run'[k].written) = Len(run[k].written) + 1

\* C27: within one run no row is written twice and every value written is
\* terminal; a write gives the row the outcome of the run that writes it,
\* whatever value an earlier run left there, and changes no other row; the
\* rows change by such writes only
C27_OneTransitionPerRun ==
    /\ [](\A k \in StartedRuns :
            /\ Len(run[k].written) = Cardinality(WrittenLines(k))
            /\ \A i \in 1..Len(run[k].written) :
                   run[k].written[i].judgement \in TerminalJudgements)
    /\ [][\A k \in Runs :
            Writes(k) =>
                \A i \in 1..Len(rows_data) :
                    IF rows_data[i].line = JustWritten(k).line
                    THEN rows_data'[i].judgement = JustWritten(k).judgement
                    ELSE rows_data'[i] = rows_data[i]]_vars
    /\ [][rows_data' # rows_data => \E k \in Runs : Writes(k)]_vars

\* the first run has ended after writing row 1; the second run wrote row 1
\* again with another outcome, which the row now holds
C27_Witness ==
    /\ run[1].pc = "ended"
    /\ run[2].pc # "none"
    /\ \E i \in 1..Len(run[1].written) :
       \E j \in 1..Len(run[2].written) :
           /\ run[1].written[i].line = 1
           /\ run[2].written[j].line = 1
           /\ run[1].written[i].judgement # run[2].written[j].judgement
           /\ RowOf(1).judgement = run[2].written[j].judgement

\* the run started last
LatestRun == CHOOSE k \in StartedRuns : \A j \in StartedRuns : j <= k

\* C28: the queue the application reads holds events of the run started
\* last only, so every event it handles was produced by that run; an event
\* of an earlier run, the Done event of a stopped run included, is never
\* handled as part of a later run
C28_NoCrossRunDelivery ==
    /\ [](app_event_queue # 0 =>
            \A i \in 1..Len(run_queue[app_event_queue]) :
                run_queue[app_event_queue][i].run = LatestRun)
    /\ [][(app_event_queue # 0 /\
           Len(run_queue'[app_event_queue]) < Len(run_queue[app_event_queue]))
              => Head(run_queue[app_event_queue]).run = LatestRun]_vars

\* the first run was stopped and its Done event lies unread in its own queue,
\* while the application has handled the events of the second run
C28_Witness ==
    /\ run[1].stopped
    /\ \E i \in 1..Len(run_queue[1]) :
           run_queue[1][i] = RunEvent("done", 1, TRUE)
    /\ app_event_queue = 2
    /\ run[2].pc = "ended"
    /\ run[2].written # <<>>
    /\ run_queue[2] = <<>>
    /\ ~ running

(***************************************************************************)
(* C33, as claimed: for any number of workers the Progress events lie on   *)
(* the channel with current = 1, 2, ..., k in channel order, and each      *)
(* Progress event directly follows the RowUpdated event of the row it      *)
(* counts.                                                                 *)
(***************************************************************************)
C33_ProgressFollowsItsRow ==
    /\ LET pe == EventsOfType("progress")
       IN  \A i \in 1..Len(pe) : pe[i].current = i
    /\ \A i \in 1..Len(event_queue) :
           event_queue[i].type = "progress" =>
               /\ i > 1
               /\ event_queue[i - 1].type = "row"
               /\ rank[event_queue[i - 1].row.line] = event_queue[i].current

(* C34, as claimed: every Progress event carries as its total the number   *)
(* of rows put on the task queue, and in a run that ends not cancelled the *)
(* last Progress event on the channel has current equal to total.          *)
C34_LastProgressIsTotal ==
    LET pe == EventsOfType("progress")
    IN  /\ \A i \in 1..Len(pe) : pe[i].total = Len(QueuedLines)
        /\ \A i \in 1..Len(DoneEvents) :
               (~DoneEvents[i].cancelled /\ pe # <<>>) =>
                   pe[Len(pe)].current = pe[Len(pe)].total

(***************************************************************************)
(* C35: each row put on the task queue is taken by at most one worker and  *)
(* processed at most once in the run, for any number of workers; in a run  *)
(* that is not cancelled it is processed exactly once.  A queued line is   *)
(* at every moment in exactly one place: waiting on the queue (once), in   *)
(* the hands of one worker, or finished; a worker that takes a line takes  *)
(* the head of the queue and removes it in the same step.                  *)
(***************************************************************************)
Waiting(line) == { i \in 1..Len(task_queue) : task_queue[i] = line }

Holders(line) == { w \in Workers : w_line[w] = line }

C35_EachRowOnce ==
    /\ [](main_pc # "setup" =>
            \A i \in 1..Len(QueuedLines) :
                LET line == QueuedLines[i]
                IN  /\ Cardinality(Waiting(line)) + Cardinality(Holders(line))
                         + (IF Finished(line) THEN 1 ELSE 0) = 1
                    /\ Len(RowEventsOf(line)) <= 1
                    /\ Len(history[line]) > 0 => Waiting(line) = {})
    /\ [](\A i \in 1..Len(DoneEvents) :
            ~DoneEvents[i].cancelled =>
                \A j \in 1..Len(QueuedLines) :
                    /\ Finished(QueuedLines[j])
                    /\ Len(RowEventsOf(QueuedLines[j])) = 1)
    /\ [][\A w \in Workers :
            (w_line'[w] # w_line[w] /\ w_line'[w] # 0) =>
                /\ task_queue # <<>>
                /\ w_line'[w] = Head(task_queue)
                /\ task_queue' = Tail(task_queue)
                /\ Holders(w_line'[w]) = {}]_vars

\* a pool of two has finished a run not cancelled in which worker 0 looked up one
\* row and worker 1 another
C35_Witness ==
    /\ main_pc = "finished"
    /\ effective_parallel = 2
    /\ Len(QueuedLines) = 2
    /\ DoneEmitted /\ ~DoneEvents[1].cancelled
    /\ \E i \in 1..Len(event_queue) : \E j \in 1..Len(event_queue) :
           /\ event_queue[i].type = "worker_log" /\ event_queue[i].worker = 0
           /\ event_queue[j].type = "worker_log" /\ event_queue[j].worker = 1
           /\ event_queue[i].line # event_queue[j].line
    /\ \A l \in 1..2 : Len(RowEventsOf(l)) = 1

(***************************************************************************)
(* C36: a run leaves every row outside its scope as it was.  A row whose   *)
(* line is not in the target set has at every moment of the run, and so at *)
(* Done, the judgement and note (and every other field) it had when the    *)
(* run was called, and no RowUpdated or WorkerLog event mentions its line. *)
(***************************************************************************)
RowsAtStart == call.ret[1]

C36_OutOfScopeUntouched ==
    \A i \in 1..Len(rows_data) :
        ~InTarget(rows_data[i].line) =>
            /\ rows_data[i].judgement = RowsAtStart[i].judgement
            /\ rows_data[i].note = RowsAtStart[i].note
            /\ rows_data[i] = RowsAtStart[i]
            /\ \A j \in 1..Len(event_queue) :
                   /\ event_queue[j].type = "row" =>
                          event_queue[j].row.line # rows_data[i].line
                   /\ event_queue[j].type = "worker_log" =>
                          event_queue[j].line # rows_data[i].line
            /\ history[rows_data[i].line] = <<>>
            /\ rank[rows_data[i].line] = 0

\* a run over the second of two rows has finished: the second row was looked up and
\* rewritten, the first is outside the scope
C36_Witness ==
    /\ main_pc = "finished"
    /\ Len(rows_data) = 2
    /\ ~target_lines.is_none /\ target_lines.lines = { 2 }
    /\ Len(RowEventsOf(2)) = 1
    /\ rows_data[2] # RowsAtStart[2]
    /\ \E j \in 1..Len(event_queue) :
           event_queue[j].type = "worker_log" /\ event_queue[j].line = 2
    /\ DoneEmitted

(***************************************************************************)
(* C37: a Done event with cancelled = false means that every row in scope  *)
(* was processed in the run: the task queue is empty, and as many rows     *)
(* were counted and reported as were queued.  Conversely, when the workers *)
(* have all terminated and a row in scope is still on the task queue, the  *)
(* stop request is on, the flag read after the join is true and the Done   *)
(* event carries cancelled = true.                                         *)
(***************************************************************************)
WorkersTerminated ==
    /\ main_pc \notin { "setup", "spawn" }
    /\ \A w \in Workers : w < effective_parallel => pc[w] = "terminated"

C37_NotCancelledMeansAllProcessed ==
    /\ \A i \in 1..Len(DoneEvents) :
           ~DoneEvents[i].cancelled =>
               /\ task_queue = <<>>
               /\ processed = Len(QueuedLines)
               /\ Len(EventsOfType("row")) = Len(QueuedLines)
               /\ \A j \in 1..Len(QueuedLines) : rank[QueuedLines[j]] > 0
    /\ (WorkersTerminated /\ task_queue # <<>>) =>
           /\ stop_flag
           /\ main_pc \in { "put_done", "clear", "finished" } => cancelled
           /\ \A i \in 1..Len(DoneEvents) : DoneEvents[i].cancelled

\* a stop request came while the first of two rows was in progress: the workers have
\* terminated, the second row is still on the queue, and Done carries cancelled = true
C37_Witness ==
    /\ main_pc = "finished"
    /\ WorkersTerminated
    /\ task_queue # <<>>
    /\ processed >= 1
    /\ DoneEmitted /\ DoneEvents[1].cancelled

(* C38, as claimed: at most one run is executing at any time; no run has   *)
(* its workers going (checking the stop event, taking or looking up a row) *)
(* while the workers of another run, stopped or not, are still going.      *)
WorkersGoing(k) == run[k].pc \in { "check", "lookup" }

C38_OneRunAtATime ==
    \A k1 \in Runs : \A k2 \in Runs :
        (WorkersGoing(k1) /\ WorkersGoing(k2)) => k1 = k2

(* C39, as claimed: once a stop of a run has set the flag of the Lookup    *)
(* Service, no step clears the flag while a worker of that run is still    *)
(* going.                                                                  *)
C39_FlagHeldUntilWorkersEnd ==
    [][\A k \in Runs :
          (service_cancel.set /\ service_cancel.by = k /\ WorkersGoing(k))
              => service_cancel'.set]_vars

(***************************************************************************)
(* C31: the failed-line list, the processed counter and the retry-streak   *)
(* counter are each changed by at most one worker at a time, so no update  *)
(* is lost.  At most one worker is inside the with block of a lock, and a  *)
(* worker between the load and the store of processed += 1 is inside       *)
(* processed_lock.  At Done the counter equals the number of rows          *)
(* processed, the failed-line list has one entry per Failed row, and the   *)
(* Progress events carry pairwise distinct current values that form        *)
(* 1..k for k rows processed.                                              *)
(***************************************************************************)
Holding(w) == { l \in LockNames : w \in lock[l] }

ProgressValues == { e.current : e \in { event_queue[i] : i \in 1..Len(event_queue) } \cap
                                       { Progress(cur, total) : cur \in 0..Len(rows_data) } }

C31_LocksSerialise ==
    /\ \A l \in LockNames : Cardinality(lock[l]) <= 1
    /\ \A w \in Workers :
           /\ pc[w] \in { "count_store", "count_read", "streak_reset" } => Inside(w)
           /\ Holding(w) # {} => Inside(w)
    /\ LET pe == EventsOfType("progress")
       IN  \A i \in 1..Len(pe) : \A j \in 1..Len(pe) :
               pe[i].current = pe[j].current => i = j
    /\ DoneEmitted =>
           /\ processed = Len(EventsOfType("row"))
           /\ processed = Cardinality({ l \in Lines : rank[l] > 0 })
           /\ Len(failed_rows) = Cardinality(FailedLines)
           /\ { failed_rows[i] : i \in 1..Len(failed_rows) } = FailedLines
           /\ ProgressValues = 1..processed
           /\ Len(EventsOfType("progress")) = processed

\* in a pool of two a worker waits at processed_lock while the other is between the
\* load and the store of processed += 1, after a first row was counted
C31_Witness ==
    /\ effective_parallel = 2
    /\ \E a \in Workers : \E b \in Workers :
           /\ pc[a] = "count" /\ ~Inside(a)
           /\ pc[b] = "count_store" /\ Inside(b)
           /\ lock["processed_lock"] = { b }

(***************************************************************************)
(* C32: the processing of a row never blocks that of another.  In a pool   *)
(* of more than one worker no worker is inside a with block while it is in *)
(* a lookup call, a backoff wait or a session reset; no worker ever holds  *)
(* two locks or waits for one while holding another; and no worker waits   *)
(* forever on a lock: whenever a worker waits at a with statement, the     *)
(* worker inside the block can take its next step, and as long as a worker *)
(* has not terminated some worker can take a step.                         *)
(***************************************************************************)
Blocking == { "lookup", "retry", "streak_reset" }

Waits(w) == pc[w] \in Entries /\ ~Inside(w)

C32_NoLockAcrossBlocking ==
    /\ effective_parallel > 1 =>
           \A w \in Workers : pc[w] \in Blocking => Holding(w) = {}
    /\ \A w \in Workers :
           /\ Cardinality(Holding(w)) <= 1
           /\ Waits(w) => Holding(w) = {}
           /\ pc[w] \in { "lookup", "retry" } => Holding(w) = {}
    /\ \A w \in Workers :
           (Waits(w) /\ lock[LockAt(pc[w])] # {}) =>
               \E h \in lock[LockAt(pc[w])] :
                   /\ ~Waits(h)
                   /\ ENABLED LockedWorkerStep(h)
    /\ (\E w \in Workers : pc[w] \notin { "unstarted", "terminated" }) =>
           ENABLED (\E w \in Workers : LockedWorkerStep(w))

\* in a pool of two a worker is in the backoff before a retry, having read the
\* streak inside its lock, while the other worker is inside a with block
C32_Witness ==
    /\ effective_parallel = 2
    /\ \E a \in Workers : \E b \in Workers :
           /\ a # b
           /\ pc[a] = "retry"
           /\ Len(history[w_line[a]]) >= 1
           /\ Inside(b)

====
